---- MODULE Spec2Model ----
(***************************************************************************)
(* json2toon_rs: the TOON encoder (src/src/encoder.rs) and decoder         *)
(* (src/src/decoder.rs) as operators over texts, and the encode / decode   *)
(* calls as the actions of a state machine.                                *)
(*                                                                         *)
(* A text is a sequence of characters; a character is a string.  Every     *)
(* character is one byte long except MB, which stands for a character of   *)
(* two bytes (Rust strings are UTF-8 and are sliced by byte offsets).      *)
(* A value tree is a record [t |-> tag, v |-> payload].                    *)
(***************************************************************************)
EXTENDS Integers, Sequences, FiniteSets, TLC

VARIABLES pc, scenario, value, encOpts, decOpts, text, result, retext, cursor, frames

vars == <<pc, scenario, value, encOpts, decOpts, text, result, retext, cursor, frames>>

----------------------------------------------------------------------------
(* Characters *)

QUOTE == "\""
BSLASH == "\\"
TAB == "\t"
NL == "\n"
CR == "\r"
\* the form feed, a whitespace character other than space, tab and the line ends
FF == "\f"
MB == "MB"

Digits == {"0", "1", "2", "3", "4", "5", "6", "7", "8", "9"}

Letters ==
  {"a", "b", "c", "d", "e", "f", "g", "h", "i", "j", "k", "l", "m", "n", "o", "p", "q", "r",
   "s", "t", "u", "v", "w", "x", "y", "z",
   "A", "B", "C", "D", "E", "F", "G", "H", "I", "J", "K", "L", "M", "N", "O", "P", "Q", "R",
   "S", "T", "U", "V", "W", "X", "Y", "Z"}

DigitVal(c) ==
  CASE c = "0" -> 0 [] c = "1" -> 1 [] c = "2" -> 2 [] c = "3" -> 3 [] c = "4" -> 4
    [] c = "5" -> 5 [] c = "6" -> 6 [] c = "7" -> 7 [] c = "8" -> 8 [] c = "9" -> 9

DigitChar(d) ==
  CASE d = 0 -> "0" [] d = 1 -> "1" [] d = 2 -> "2" [] d = 3 -> "3" [] d = 4 -> "4"
    [] d = 5 -> "5" [] d = 6 -> "6" [] d = 7 -> "7" [] d = 8 -> "8" [] d = 9 -> "9"

\* char::len_utf8
ByteLen(c) == IF c = MB THEN 2 ELSE 1

\* char::is_whitespace
IsWhitespace(c) == c \in {" ", TAB, NL, CR, FF}

\* char::is_ascii
IsAscii(c) == c # MB

----------------------------------------------------------------------------
(* The string operations of the Rust standard library that the code uses *)

\* let x = e; body: the value of e is computed once and handed to the body F
Bind(x, F(_)) == F(x)

RECURSIVE ByteLength(_)
\* str::len: the length in bytes
ByteLength(s) == IF s = <<>> THEN 0 ELSE ByteLen(Head(s)) + ByteLength(Tail(s))

\* the characters at 0-based positions a .. b-1
Slice(s, a, b) == SubSeq(s, a + 1, b)

RECURSIVE TrimStart(_)
TrimStart(s) ==
  IF s # <<>> /\ IsWhitespace(Head(s)) THEN TrimStart(Tail(s)) ELSE s

RECURSIVE TrimEnd(_)
TrimEnd(s) ==
  IF s # <<>> /\ IsWhitespace(s[Len(s)]) THEN TrimEnd(SubSeq(s, 1, Len(s) - 1)) ELSE s

Trim(s) == TrimEnd(TrimStart(s))

StartsWith(s, p) == Len(s) >= Len(p) /\ SubSeq(s, 1, Len(p)) = p

EndsWith(s, p) == Len(s) >= Len(p) /\ SubSeq(s, Len(s) - Len(p) + 1, Len(s)) = p

\* str::contains with a character
Contains(s, c) == \E i \in 1..Len(s) : s[i] = c

\* str::contains with a string
ContainsStr(s, p) == \E i \in 0..(Len(s) - Len(p)) : SubSeq(s, i + 1, i + Len(p)) = p

\* str::find with a character: the 0-based position of the first one, -1 for None
Find(s, c) ==
  IF Contains(s, c) THEN (CHOOSE i \in 1..Len(s) : s[i] = c /\ \A j \in 1..(i - 1) : s[j] # c) - 1
  ELSE -1

\* the character position at byte offset b, -1 when b is not a character boundary
\* (slicing a str there panics)
CharAtByte(s, b) ==
  IF \E j \in 0..Len(s) : ByteLength(SubSeq(s, 1, j)) = b
  THEN CHOOSE j \in 0..Len(s) : ByteLength(SubSeq(s, 1, j)) = b
  ELSE -1

RECURSIVE SplitNl(_, _)
\* the pieces of s between newline characters, cur being the piece in progress
SplitNl(s, cur) ==
  Bind(Find(s, NL), LAMBDA at :
    IF at = -1 THEN <<cur \o s>>
    ELSE <<cur \o Slice(s, 0, at)>> \o SplitNl(Slice(s, at + 1, Len(s)), <<>>))

StripCr(l) == IF l # <<>> /\ l[Len(l)] = CR THEN SubSeq(l, 1, Len(l) - 1) ELSE l

\* str::lines: split on "\n", a final empty piece is dropped, a trailing "\r" is stripped
Lines(s) ==
  LET pieces == SplitNl(s, <<>>)
      kept == IF pieces[Len(pieces)] = <<>> THEN SubSeq(pieces, 1, Len(pieces) - 1) ELSE pieces
  IN [i \in 1..Len(kept) |-> StripCr(kept[i])]

RECURSIVE Flatten(_)
\* the concatenation of a sequence of texts
Flatten(ss) == IF ss = <<>> THEN <<>> ELSE Head(ss) \o Flatten(Tail(ss))

AllDigits(s) == s # <<>> /\ \A i \in 1..Len(s) : s[i] \in Digits

RECURSIVE DecValue(_)
\* the number a digit string denotes
DecValue(s) == IF s = <<>> THEN 0 ELSE 10 * DecValue(SubSeq(s, 1, Len(s) - 1)) + DigitVal(s[Len(s)])

\* the longest digit string the model gives a value to
MaxDigits == 6

\* str::parse::<usize>: an optional "+" and then digits; [ok, n]
ParseUsize(s) ==
  Bind(IF s # <<>> /\ Head(s) = "+" THEN Tail(s) ELSE s, LAMBDA body :
    IF AllDigits(body) /\ Len(body) <= MaxDigits THEN [ok |-> TRUE, n |-> DecValue(body)]
    ELSE [ok |-> FALSE, n |-> 0])

\* str::parse::<i64>: an optional "+" or "-" and then digits; [ok, n]
ParseI64(s) ==
  Bind(s # <<>> /\ Head(s) \in {"+", "-"}, LAMBDA signed :
  Bind(IF signed THEN Tail(s) ELSE s, LAMBDA body :
    IF AllDigits(body) /\ Len(body) <= MaxDigits
    THEN [ok |-> TRUE, n |-> IF signed /\ Head(s) = "-" THEN 0 - DecValue(body) ELSE DecValue(body)]
    ELSE [ok |-> FALSE, n |-> 0]))


RECURSIVE StripTens(_, _)
\* m * 10^e with the factors of ten moved from m to e
StripTens(m, e) ==
  IF m = 0 THEN <<0, 0>>
  ELSE IF m % 10 = 0 THEN StripTens(m \div 10, e + 1)
  ELSE <<m, e>>

\* str::parse::<f64>: Sign? ( inf | infinity | nan | Number ), Number being
\* ( Digit+ | Digit+ . Digit* | Digit* . Digit+ ) ( e Sign? Digit+ )?
\* [ok, finite, n]: n is <<m, e>>, the value m * 10^e
ParseF64(s) ==
  Bind(s # <<>> /\ Head(s) \in {"+", "-"}, LAMBDA signed :
  Bind(IF signed THEN Tail(s) ELSE s, LAMBDA body :
  Bind(IF Contains(body, "e") THEN Find(body, "e") ELSE Find(body, "E"), LAMBDA epos :
  Bind(IF epos = -1 THEN body ELSE Slice(body, 0, epos), LAMBDA mant :
  Bind(IF epos = -1 THEN <<>> ELSE Slice(body, epos + 1, Len(body)), LAMBDA expo :
  Bind(expo # <<>> /\ Head(expo) \in {"+", "-"}, LAMBDA esigned :
  Bind(IF esigned THEN Tail(expo) ELSE expo, LAMBDA edigits :
  Bind(Find(mant, "."), LAMBDA dpos :
  Bind(IF dpos = -1 THEN mant ELSE Slice(mant, 0, dpos), LAMBDA ip :
  Bind(IF dpos = -1 THEN <<>> ELSE Slice(mant, dpos + 1, Len(mant)), LAMBDA fp :
  Bind(ip \o fp, LAMBDA digits :
    IF body \in {<<"i", "n", "f">>, <<"n", "a", "n">>,
                 <<"i", "n", "f", "i", "n", "i", "t", "y">>}
    THEN [ok |-> TRUE, finite |-> FALSE, n |-> <<0, 0>>]
    ELSE IF /\ AllDigits(digits) /\ Len(digits) <= MaxDigits
            /\ (epos = -1 \/ (AllDigits(edigits) /\ Len(edigits) <= 1))
    THEN [ok |-> TRUE, finite |-> TRUE,
          n |-> StripTens(IF signed /\ Head(s) = "-" THEN 0 - DecValue(digits)
                          ELSE DecValue(digits),
                          (IF epos = -1 THEN 0
                           ELSE IF esigned /\ Head(expo) = "-" THEN 0 - DecValue(edigits)
                           ELSE DecValue(edigits)) - Len(fp))]
    ELSE [ok |-> FALSE, finite |-> FALSE, n |-> <<0, 0>>])))))))))))

----------------------------------------------------------------------------
(* The value tree (serde_json::Value, its map keeping insertion order) *)

VNull == [t |-> "null"]
VBool(b) == [t |-> "bool", b |-> b]
VInt(n) == [t |-> "int", n |-> n]
VFloat(m, e) == [t |-> "float", m |-> m, e |-> e]
VStr(s) == [t |-> "str", s |-> s]
VArr(a) == [t |-> "arr", a |-> a]
\* an object is the sequence of its entries [k, val], in insertion order
VObj(o) == [t |-> "obj", o |-> o]

EmptyObj == VObj(<<>>)

IsPrimitive(x) == x.t \in {"null", "bool", "int", "float", "str"}

IsNumber(x) == x.t \in {"int", "float"}

HasKey(o, k) == \E i \in 1..Len(o) : o[i].k = k

\* Map::insert: a new key is appended, the value of a key that is present is replaced
MapInsert(o, k, x) ==
  IF HasKey(o, k) THEN [i \in 1..Len(o) |-> IF o[i].k = k THEN [k |-> k, val |-> x] ELSE o[i]]
  ELSE Append(o, [k |-> k, val |-> x])

\* Map::get
MapGet(o, k) == o[CHOOSE i \in 1..Len(o) : o[i].k = k].val

----------------------------------------------------------------------------
(* Delimiter (src/src/common.rs) *)

Delimiters == {"Comma", "Tab", "Pipe"}

as_char(d) == CASE d = "Comma" -> "," [] d = "Tab" -> TAB [] d = "Pipe" -> "|"

header_symbol(d) == CASE d = "Comma" -> <<>> [] d = "Tab" -> <<TAB>> [] d = "Pipe" -> <<"|">>

----------------------------------------------------------------------------
(* Results: Result<_, DecodeError> (src/src/error.rs), and a panic *)

NoValue == [t |-> "none"]

\* Ok(x), with the cursor position the call leaves behind
Ok(x, p) ==
  [kind |-> "Ok", val |-> x, pos |-> p, line |-> 0, expected |-> 0, found |-> 0,
   detail |-> "", text |-> <<>>]

Fail(kind, line, expected, found, detail, txt) ==
  [kind |-> kind, val |-> NoValue, pos |-> 0, line |-> line, expected |-> expected,
   found |-> found, detail |-> detail, text |-> txt]

InvalidIndentation(line) == Fail("InvalidIndentation", line, 0, 0, "", <<>>)
InvalidArrayHeader(msg, txt) == Fail("InvalidArrayHeader", 0, 0, 0, msg, txt)
ArrayLengthMismatch(expected, found) == Fail("ArrayLengthMismatch", 0, expected, found, "", <<>>)
RowWidthMismatch(line, expected, found) == Fail("RowWidthMismatch", line, expected, found, "", <<>>)
InvalidLine(line, content) == Fail("InvalidLine", line, 0, 0, "", content)
InvalidEscapeSequence(line, sequence) == Fail("InvalidEscapeSequence", line, 0, 0, "", sequence)
ParseError(msg) == Fail("ParseError", 0, 0, 0, msg, <<>>)
\* the call aborts: a slice out of range or off a character boundary
Panic(what) == Fail("Panic", 0, 0, 0, what, <<>>)

DecodeErrorKinds ==
  {"InvalidIndentation", "InvalidArrayHeader", "ArrayLengthMismatch", "RowWidthMismatch",
   "InvalidLine", "InvalidEscapeSequence", "ParseError"}

IsOk(r) == r.kind = "Ok"

----------------------------------------------------------------------------
(* The decoder (src/src/decoder.rs): the Primitive Codec and the header grammar *)

\* struct Line
MkLine(content, depth, line_num) == [content |-> content, depth |-> depth, line_num |-> line_num]

RECURSIVE parse_lines_numbering_logical(_, _, _, _)
\* a variant of parse_lines_from that reports a bad line by its position among the
\* non-blank lines instead of its physical line number
parse_lines_numbering_logical(phys, opts, i, acc) ==
  IF i > Len(phys) THEN Ok(acc, 0)
  ELSE Bind(Trim(phys[i]), LAMBDA trimmed :
       Bind(ByteLength(phys[i]) - ByteLength(TrimStart(phys[i])), LAMBDA leading_spaces :
         IF trimmed = <<>> THEN parse_lines_numbering_logical(phys, opts, i + 1, acc)
         ELSE IF opts.strict /\ leading_spaces % opts.indent # 0
         THEN InvalidIndentation(Len(acc) + 1)
         ELSE parse_lines_numbering_logical(phys, opts, i + 1,
                Append(acc, MkLine(trimmed, leading_spaces \div opts.indent, i)))))

RECURSIVE parse_lines_dropping_empty(_, _, _, _)
\* a variant of parse_lines_from that drops the empty lines only and keeps a line
\* of whitespace as a line
parse_lines_dropping_empty(phys, opts, i, acc) ==
  IF i > Len(phys) THEN Ok(acc, 0)
  ELSE Bind(Trim(phys[i]), LAMBDA trimmed :
       Bind(ByteLength(phys[i]) - ByteLength(TrimStart(phys[i])), LAMBDA leading_spaces :
         IF phys[i] = <<>> THEN parse_lines_dropping_empty(phys, opts, i + 1, acc)
         ELSE IF opts.strict /\ leading_spaces % opts.indent # 0 THEN InvalidIndentation(i)
         ELSE parse_lines_dropping_empty(phys, opts, i + 1,
                Append(acc, MkLine(trimmed, leading_spaces \div opts.indent, i)))))

RECURSIVE parse_lines_from(_, _, _, _)
\* the filter_map of parse_lines from physical line i on (1-based, so i is the
\* line number); collect() stops at the first Err
parse_lines_from(phys, opts, i, acc) ==
  IF i > Len(phys) THEN Ok(acc, 0)
  ELSE Bind(Trim(phys[i]), LAMBDA trimmed :
       Bind(ByteLength(phys[i]) - ByteLength(TrimStart(phys[i])), LAMBDA leading_spaces :
         IF trimmed = <<>> THEN parse_lines_from(phys, opts, i + 1, acc)
         ELSE IF opts.strict /\ leading_spaces % opts.indent # 0 THEN InvalidIndentation(i)
         ELSE parse_lines_from(phys, opts, i + 1,
                Append(acc, MkLine(trimmed, leading_spaces \div opts.indent, i)))))

\* a variant of parse_lines that validates the indentation in both modes
parse_lines_validating_always(input, opts) ==
  parse_lines_from(Lines(input), [opts EXCEPT !.strict = TRUE], 1, <<>>)

parse_lines(input, opts) == parse_lines_from(Lines(input), opts, 1, <<>>)

RECURSIVE unescape_from(_, _, _, _)
\* the escape loop of unescape_string_cow over the rest of the inner text
unescape_from(rest, acc, line_num, opts) ==
  IF rest = <<>> THEN Ok(acc, 0)
  ELSE IF Head(rest) # BSLASH THEN unescape_from(Tail(rest), Append(acc, Head(rest)), line_num, opts)
  ELSE IF Len(rest) = 1
       THEN IF opts.strict THEN ParseError("Unterminated escape sequence")
            ELSE Ok(Append(acc, BSLASH), 0)
  ELSE LET other == rest[2]
           rest2 == SubSeq(rest, 3, Len(rest))
       IN CASE other = BSLASH -> unescape_from(rest2, Append(acc, BSLASH), line_num, opts)
            [] other = QUOTE -> unescape_from(rest2, Append(acc, QUOTE), line_num, opts)
            [] other = "n" -> unescape_from(rest2, Append(acc, NL), line_num, opts)
            [] other = "r" -> unescape_from(rest2, Append(acc, CR), line_num, opts)
            [] other = "t" -> unescape_from(rest2, Append(acc, TAB), line_num, opts)
            [] OTHER ->
                 IF ~IsAscii(other) /\ opts.strict
                 THEN Fail("InvalidEscapeSequence", line_num, 0, 0,
                           "non-ASCII character in escape", <<other>>)
                 ELSE IF opts.strict THEN InvalidEscapeSequence(line_num, <<other>>)
                 ELSE unescape_from(rest2, acc \o <<BSLASH, other>>, line_num, opts)

\* a variant of unescape_string_cow that keeps every escape it does not know,
\* in strict mode too
unescape_string_cow_lenient(s, line_num, opts) ==
  Bind(Trim(s), LAMBDA trimmed :
    IF ~StartsWith(trimmed, <<QUOTE>>) \/ ~EndsWith(trimmed, <<QUOTE>>) THEN Ok(trimmed, 0)
    ELSE IF 1 > Len(trimmed) - 1 THEN Panic("slice index starts at 1 but ends at 0")
    ELSE Bind(Slice(trimmed, 1, Len(trimmed) - 1), LAMBDA inner :
           IF ~Contains(inner, BSLASH) THEN Ok(inner, 0)
           ELSE unescape_from(inner, <<>>, line_num, [opts EXCEPT !.strict = FALSE])))

\* Ok(text) | Err | Panic
unescape_string_cow(s, line_num, opts) ==
  Bind(Trim(s), LAMBDA trimmed :
    IF ~StartsWith(trimmed, <<QUOTE>>) \/ ~EndsWith(trimmed, <<QUOTE>>) THEN Ok(trimmed, 0)
    ELSE IF 1 > Len(trimmed) - 1 THEN Panic("slice index starts at 1 but ends at 0")
    ELSE Bind(Slice(trimmed, 1, Len(trimmed) - 1), LAMBDA inner :
           IF ~Contains(inner, BSLASH) THEN Ok(inner, 0)
           ELSE unescape_from(inner, <<>>, line_num, opts)))

unescape_string(s, line_num, opts) == unescape_string_cow(s, line_num, opts)

RECURSIVE is_key_value_from(_, _)
is_key_value_from(rest, in_quotes) ==
  IF rest = <<>> THEN FALSE
  ELSE IF Head(rest) = QUOTE THEN is_key_value_from(Tail(rest), ~in_quotes)
  ELSE IF Head(rest) = ":" /\ ~in_quotes THEN TRUE
  ELSE is_key_value_from(Tail(rest), in_quotes)

is_key_value(line) == is_key_value_from(line, FALSE)

RECURSIVE find_colon(_, _, _)
\* the loop of parse_key_value: the 0-based character index of the first colon
\* outside quotes, -1 for None
find_colon(line, i, in_quotes) ==
  IF i >= Len(line) THEN -1
  ELSE LET ch == line[i + 1] IN
       IF ch = QUOTE /\ (i = 0 \/ line[i] # BSLASH) THEN find_colon(line, i + 1, ~in_quotes)
       ELSE IF ch = ":" /\ ~in_quotes THEN i
       ELSE find_colon(line, i + 1, in_quotes)

NoKeyValue == [some |-> FALSE, key |-> <<>>, value |-> <<>>]

\* Ok(Some(key, value)) | Ok(None) | Err | Panic: the character index of the
\* colon is used as a byte offset
parse_key_value(line, line_num, opts) ==
  Bind(find_colon(line, 0, FALSE), LAMBDA pos :
    IF pos = -1 THEN Ok(NoKeyValue, 0)
    ELSE Bind(CharAtByte(line, pos), LAMBDA kEnd :
         Bind(CharAtByte(line, pos + 1), LAMBDA vStart :
           IF kEnd = -1 \/ vStart = -1 THEN Panic("byte index is not a char boundary")
           ELSE Bind(unescape_string_cow(Trim(Slice(line, 0, kEnd)), line_num, opts),
                     LAMBDA unescaped_key :
                  IF ~IsOk(unescaped_key) THEN unescaped_key
                  ELSE Ok([some |-> TRUE, key |-> unescaped_key.val,
                           value |-> Trim(Slice(line, vStart, Len(line)))], 0)))))

RECURSIVE split_from(_, _, _, _, _)
\* the loop of split_by_delimiter
split_from(rest, delim_char, in_quotes, current, res) ==
  CASE rest = <<>> -> Append(res, Trim(current))
    [] rest # <<>> /\ Head(rest) = QUOTE ->
         split_from(Tail(rest), delim_char, ~in_quotes, Append(current, Head(rest)), res)
    [] rest # <<>> /\ Head(rest) = BSLASH /\ in_quotes /\ Len(rest) >= 2 ->
         split_from(SubSeq(rest, 3, Len(rest)), delim_char, in_quotes,
                    current \o <<Head(rest), rest[2]>>, res)
    [] rest # <<>> /\ Head(rest) = BSLASH /\ in_quotes /\ Len(rest) < 2 ->
         split_from(<<>>, delim_char, in_quotes, Append(current, Head(rest)), res)
    [] rest # <<>> /\ Head(rest) = delim_char /\ Head(rest) # QUOTE /\ ~in_quotes ->
         split_from(Tail(rest), delim_char, in_quotes, <<>>, Append(res, Trim(current)))
    [] OTHER ->
         split_from(Tail(rest), delim_char, in_quotes, Append(current, Head(rest)), res)

split_by_delimiter(s, delimiter) == split_from(s, as_char(delimiter), FALSE, <<>>, <<>>)

TxtTrue == <<"t", "r", "u", "e">>
TxtFalse == <<"f", "a", "l", "s", "e">>
TxtNull == <<"n", "u", "l", "l">>

\* a variant of parse_primitive without the leading-zero guard: every token that
\* parses as a number is one
parse_primitive_unguarded(s, line_num, opts) ==
  Bind(Trim(s), LAMBDA trimmed :
    IF StartsWith(trimmed, <<QUOTE>>) /\ EndsWith(trimmed, <<QUOTE>>)
    THEN Bind(unescape_string(trimmed, line_num, opts),
              LAMBDA u : IF IsOk(u) THEN Ok(VStr(u.val), 0) ELSE u)
    ELSE IF trimmed = TxtTrue THEN Ok(VBool(TRUE), 0)
    ELSE IF trimmed = TxtFalse THEN Ok(VBool(FALSE), 0)
    ELSE IF trimmed = TxtNull THEN Ok(VNull, 0)
    ELSE Bind(ParseI64(trimmed), LAMBDA asI64 :
           IF asI64.ok THEN Ok(VInt(asI64.n), 0)
           ELSE Bind(ParseF64(trimmed), LAMBDA asF64 :
                  IF asF64.ok /\ asF64.finite THEN Ok(VFloat(asF64.n[1], asF64.n[2]), 0)
                  ELSE Ok(VStr(trimmed), 0))))

\* Ok(value) | Err | Panic
parse_primitive(s, line_num, opts) ==
  Bind(Trim(s), LAMBDA trimmed :
    IF StartsWith(trimmed, <<QUOTE>>) /\ EndsWith(trimmed, <<QUOTE>>)
    THEN Bind(unescape_string(trimmed, line_num, opts),
              LAMBDA u : IF IsOk(u) THEN Ok(VStr(u.val), 0) ELSE u)
    ELSE IF trimmed = TxtTrue THEN Ok(VBool(TRUE), 0)
    ELSE IF trimmed = TxtFalse THEN Ok(VBool(FALSE), 0)
    ELSE IF trimmed = TxtNull THEN Ok(VNull, 0)
    ELSE IF \/ (trimmed # <<>> /\ ~StartsWith(trimmed, <<"0">>))
            \/ trimmed = <<"0">>
            \/ StartsWith(trimmed, <<"0", ".">>)
            \/ StartsWith(trimmed, <<"-", "0">>)
    THEN Bind(ParseI64(trimmed), LAMBDA asI64 :
           IF asI64.ok THEN Ok(VInt(asI64.n), 0)
           ELSE Bind(ParseF64(trimmed), LAMBDA asF64 :
                  IF asF64.ok /\ asF64.finite THEN Ok(VFloat(asF64.n[1], asF64.n[2]), 0)
                  ELSE Ok(VStr(trimmed), 0)))
    ELSE Ok(VStr(trimmed), 0))

RECURSIVE unescape_all(_, _, _, _)
\* .map(unescape_string).collect::<Result<Vec<_>, _>>()
unescape_all(fs, acc, line_num, opts) ==
  IF fs = <<>> THEN Ok(acc, 0)
  ELSE Bind(unescape_string(Head(fs), line_num, opts), LAMBDA u :
         IF ~IsOk(u) THEN u ELSE unescape_all(Tail(fs), Append(acc, u.val), line_num, opts))

\* Ok([length, delimiter, fields]) | Err | Panic; header starts with "["
parse_array_header(header, line_num, opts) ==
  Bind(Find(header, "]"), LAMBDA bracket_end :
    IF bracket_end = -1 THEN InvalidArrayHeader("Missing ] in array header", <<>>)
    ELSE Bind(Slice(header, 1, bracket_end), LAMBDA bracket_content :
         Bind(IF EndsWith(bracket_content, <<TAB>>) THEN "Tab"
              ELSE IF EndsWith(bracket_content, <<"|">>) THEN "Pipe"
              ELSE "Comma", LAMBDA delimiter :
         Bind(ParseUsize(IF delimiter = "Comma" THEN bracket_content
                         ELSE SubSeq(bracket_content, 1, Len(bracket_content) - 1)),
              LAMBDA length :
           IF ~length.ok THEN InvalidArrayHeader("Invalid array length", <<>>)
           ELSE Bind(Slice(header, bracket_end + 1, Len(header)), LAMBDA after_bracket :
                Bind(Find(after_bracket, "}"), LAMBDA close_brace :
                Bind(IF StartsWith(after_bracket, <<"{">>) /\ close_brace # -1
                     THEN unescape_all(split_by_delimiter(Slice(after_bracket, 1, close_brace),
                                                          delimiter), <<>>, line_num, opts)
                     ELSE Ok(<<>>, 0), LAMBDA fields :
                  IF ~IsOk(fields) THEN fields
                  ELSE Ok([length |-> length.n, delimiter |-> delimiter,
                           fields |-> fields.val], 0))))))))

RECURSIVE parse_all(_, _, _, _)
\* .map(parse_primitive).collect::<Result<Vec<_>, _>>()
parse_all(tokens, acc, line_num, opts) ==
  IF tokens = <<>> THEN Ok(acc, 0)
  ELSE Bind(parse_primitive(Head(tokens), line_num, opts), LAMBDA r :
         IF ~IsOk(r) THEN r ELSE parse_all(Tail(tokens), Append(acc, r.val), line_num, opts))

\* Ok(array) | Err | Panic
decode_inline_array(values_str, delimiter, expected_len, line_num, opts) ==
  Bind(split_by_delimiter(values_str, delimiter), LAMBDA values :
    IF opts.strict /\ Len(values) # expected_len
    THEN ArrayLengthMismatch(expected_len, Len(values))
    ELSE Bind(parse_all(values, <<>>, line_num, opts), LAMBDA arr :
           IF ~IsOk(arr) THEN arr ELSE Ok(VArr(arr.val), 0)))

----------------------------------------------------------------------------
(* The structural decoder: Decoder { lines, options, pos }.  Every operator   *)
(* takes the cursor pos and returns Ok(x, pos') with the cursor it leaves.    *)

RECURSIVE row_object(_, _, _, _, _, _)
\* the field loop of decode_tabular_array over fields[i ..] (i is 1-based)
row_object(fields, values, i, obj, line_num, opts) ==
  IF i > Len(fields) THEN Ok(obj, 0)
  ELSE IF i - 1 < Len(values)
       THEN Bind(parse_primitive(values[i], line_num, opts), LAMBDA p :
              IF ~IsOk(p) THEN p
              ELSE row_object(fields, values, i + 1, MapInsert(obj, fields[i], p.val),
                              line_num, opts))
  ELSE row_object(fields, values, i + 1, obj, line_num, opts)

RECURSIVE decode_tabular_rows_logical_line(_, _, _, _, _, _, _, _)
\* a variant of decode_tabular_rows that reports a bad row by its position among
\* the logical lines instead of its physical line number
decode_tabular_rows_logical_line(lines, opts, pos, row_depth, expected_rows, delimiter, fields, arr) ==
  IF pos < Len(lines) /\ lines[pos + 1].depth = row_depth
  THEN Bind(split_by_delimiter(lines[pos + 1].content, delimiter), LAMBDA values :
         IF opts.strict /\ Len(values) # Len(fields)
         THEN RowWidthMismatch(pos + 1, Len(fields), Len(values))
         ELSE Bind(row_object(fields, values, 1, <<>>, lines[pos + 1].line_num, opts),
                   LAMBDA obj :
                IF ~IsOk(obj) THEN obj
                ELSE decode_tabular_rows_logical_line(lines, opts, pos + 1, row_depth,
                                                      expected_rows, delimiter, fields,
                                                      Append(arr, VObj(obj.val)))))
  ELSE IF opts.strict /\ Len(arr) # expected_rows
       THEN ArrayLengthMismatch(expected_rows, Len(arr))
  ELSE Ok(VArr(arr), pos)

RECURSIVE decode_tabular_rows(_, _, _, _, _, _, _, _)
\* the while loop of decode_tabular_array and the row count check after it
decode_tabular_rows(lines, opts, pos, row_depth, expected_rows, delimiter, fields, arr) ==
  IF pos < Len(lines) /\ lines[pos + 1].depth = row_depth
  THEN Bind(split_by_delimiter(lines[pos + 1].content, delimiter), LAMBDA values :
         IF opts.strict /\ Len(values) # Len(fields)
         THEN RowWidthMismatch(lines[pos + 1].line_num, Len(fields), Len(values))
         ELSE Bind(row_object(fields, values, 1, <<>>, lines[pos + 1].line_num, opts),
                   LAMBDA obj :
                IF ~IsOk(obj) THEN obj
                ELSE decode_tabular_rows(lines, opts, pos + 1, row_depth, expected_rows,
                                         delimiter, fields, Append(arr, VObj(obj.val)))))
  ELSE IF opts.strict /\ Len(arr) # expected_rows
       THEN ArrayLengthMismatch(expected_rows, Len(arr))
  ELSE Ok(VArr(arr), pos)

decode_tabular_array(lines, opts, pos, row_depth, expected_rows, delimiter, fields) ==
  decode_tabular_rows(lines, opts, pos, row_depth, expected_rows, delimiter, fields, <<>>)

\* Ok(None) of try_parse_array_header
NoArray(pos) == [Ok(NoValue, pos) EXCEPT !.kind = "None"]

RECURSIVE decode_object_loop(_, _, _, _, _)
RECURSIVE try_parse_array_header(_, _, _, _, _, _)
RECURSIVE field_value(_, _, _, _, _, _)
RECURSIVE list_item_fields(_, _, _, _, _)
RECURSIVE decode_list_items(_, _, _, _, _, _)
RECURSIVE list_item(_, _, _, _, _, _)
RECURSIVE entry_value(_, _, _, _, _, _, _, _)

\* the value of a field of a list-item object whose text after the colon is v:
\* a nested or empty object, an array, or a primitive (both field branches of
\* decode_list_item_object)
field_value(lines, opts, pos, v, item_depth, line_num) ==
  IF v = <<>>
  THEN IF pos < Len(lines) /\ lines[pos + 1].depth > item_depth
       THEN decode_object_loop(lines, opts, pos, item_depth + 1, <<>>)
       ELSE Ok(EmptyObj, pos)
  ELSE Bind(try_parse_array_header(lines, opts, pos, v, item_depth, line_num),
            LAMBDA arr_val :
         IF arr_val.kind = "None"
         THEN Bind(parse_primitive(v, line_num, opts),
                   LAMBDA p : IF IsOk(p) THEN Ok(p.val, pos) ELSE p)
         ELSE arr_val)

\* the while loop of decode_list_item_object: the remaining fields at item_depth
list_item_fields(lines, opts, pos, item_depth, obj) ==
  IF pos < Len(lines) /\ lines[pos + 1].depth = item_depth
     /\ ~StartsWith(lines[pos + 1].content, <<"-", " ">>)
  THEN Bind(parse_key_value(lines[pos + 1].content, lines[pos + 1].line_num, opts),
            LAMBDA kv :
         IF ~IsOk(kv) THEN kv
         ELSE IF ~kv.val.some THEN Ok(obj, pos)
         ELSE Bind(field_value(lines, opts, pos + 1, kv.val.value, item_depth,
                               lines[pos + 1].line_num), LAMBDA r :
                IF ~IsOk(r) THEN r
                ELSE list_item_fields(lines, opts, r.pos, item_depth,
                                      MapInsert(obj, kv.val.key, r.val))))
  ELSE Ok(obj, pos)

\* Ok(map) | Err | Panic
decode_list_item_object(lines, opts, pos, first_key, first_value, item_depth, line_num) ==
  Bind(field_value(lines, opts, pos, first_value, item_depth, line_num), LAMBDA first :
    IF ~IsOk(first) THEN first
    ELSE list_item_fields(lines, opts, first.pos, item_depth,
                          MapInsert(<<>>, first_key, first.val)))

\* the body of the while loop of decode_list_array: the item whose text after
\* "- " is item_content, an inline array, an object or a primitive
list_item(lines, opts, pos, item_depth, item_content, line_num) ==
  IF StartsWith(item_content, <<"[">>)
  THEN Bind(parse_array_header(item_content, line_num, opts), LAMBDA h :
         IF ~IsOk(h) THEN h
         ELSE Bind(Find(item_content, ":"), LAMBDA colon_pos :
                IF colon_pos # -1
                THEN Bind(decode_inline_array(
                            Trim(Slice(item_content, colon_pos + 1, Len(item_content))),
                            h.val.delimiter, h.val.length, line_num, opts),
                          LAMBDA a : IF IsOk(a) THEN Ok(a.val, pos + 1) ELSE a)
                ELSE Ok(VNull, pos + 1)))
  ELSE Bind(parse_key_value(item_content, line_num, opts), LAMBDA kv :
         IF ~IsOk(kv) THEN kv
         ELSE IF kv.val.some
         THEN Bind(decode_list_item_object(lines, opts, pos + 1, kv.val.key, kv.val.value,
                                           item_depth, line_num),
                   LAMBDA o : IF IsOk(o) THEN Ok(VObj(o.val), o.pos) ELSE o)
         ELSE Bind(parse_primitive(item_content, line_num, opts),
                   LAMBDA p : IF IsOk(p) THEN Ok(p.val, pos + 1) ELSE p))

\* the while loop of decode_list_array and the item count check after it
decode_list_items(lines, opts, pos, item_depth, expected_len, arr) ==
  IF pos < Len(lines) /\ lines[pos + 1].depth = item_depth
     /\ StartsWith(lines[pos + 1].content, <<"-", " ">>)
  THEN Bind(list_item(lines, opts, pos, item_depth,
                      Slice(lines[pos + 1].content, 2, Len(lines[pos + 1].content)),
                      lines[pos + 1].line_num), LAMBDA item :
         IF ~IsOk(item) THEN item
         ELSE decode_list_items(lines, opts, item.pos, item_depth, expected_len,
                                Append(arr, item.val)))
  ELSE IF opts.strict /\ Len(arr) # expected_len
       THEN ArrayLengthMismatch(expected_len, Len(arr))
  ELSE Ok(VArr(arr), pos)

\* a variant of decode_list_array that collects the items without the strict checks
decode_list_array_unchecked(lines, opts, pos, item_depth, expected_len, delimiter) ==
  decode_list_items(lines, [opts EXCEPT !.strict = FALSE], pos, item_depth, expected_len, <<>>)

decode_list_array(lines, opts, pos, item_depth, expected_len, delimiter) ==
  decode_list_items(lines, opts, pos, item_depth, expected_len, <<>>)

\* Ok(Some(array)) | Ok(None) | Err | Panic
try_parse_array_header(lines, opts, pos, header_part, parent_depth, line_num) ==
  IF ~StartsWith(header_part, <<"[">>) THEN NoArray(pos)
  ELSE Bind(parse_array_header(header_part, line_num, opts), LAMBDA h :
         IF ~IsOk(h) THEN h
         ELSE Bind(Find(header_part, ":"), LAMBDA colon_pos :
              Bind(IF colon_pos = -1 THEN <<>>
                   ELSE Trim(Slice(header_part, colon_pos + 1, Len(header_part))),
                   LAMBDA after_colon :
                IF after_colon # <<>>
                THEN Bind(decode_inline_array(after_colon, h.val.delimiter, h.val.length,
                                              line_num, opts),
                          LAMBDA a : IF IsOk(a) THEN Ok(a.val, pos) ELSE a)
                ELSE IF h.val.fields # <<>>
                THEN decode_tabular_array(lines, opts, pos, parent_depth + 1, h.val.length,
                                          h.val.delimiter, h.val.fields)
                ELSE decode_list_array(lines, opts, pos, parent_depth + 1, h.val.length,
                                       h.val.delimiter))))

\* the value of the entry key: value_part in the while loop of decode_object:
\* an array when the key holds a "[" at bracket_pos, else a nested or empty
\* object, else a primitive
entry_value(lines, opts, pos, start_depth, key, value_part, bracket_pos, line_num) ==
  IF bracket_pos # -1
  THEN Bind(try_parse_array_header(
              lines, opts, pos + 1,
              IF value_part = <<>> THEN Slice(key, bracket_pos, Len(key))
              ELSE Slice(key, bracket_pos, Len(key)) \o <<":">> \o value_part,
              start_depth, line_num), LAMBDA array_value :
         IF array_value.kind = "None"
         THEN InvalidArrayHeader("Invalid array header in key", key)
         ELSE array_value)
  ELSE IF value_part = <<>>
  THEN IF pos + 1 < Len(lines) /\ lines[pos + 2].depth > start_depth
       THEN decode_object_loop(lines, opts, pos + 1, start_depth + 1, <<>>)
       ELSE Ok(EmptyObj, pos + 1)
  ELSE Bind(parse_primitive(value_part, line_num, opts),
            LAMBDA prim : IF IsOk(prim) THEN Ok(prim.val, pos + 1) ELSE prim)

\* the while loop of decode_object (end_line is None at every call)
decode_object_loop(lines, opts, pos, start_depth, obj) ==
  IF pos >= Len(lines) THEN Ok(VObj(obj), pos)
  ELSE IF lines[pos + 1].depth < start_depth THEN Ok(VObj(obj), pos)
  ELSE IF lines[pos + 1].depth > start_depth
  THEN decode_object_loop(lines, opts, pos + 1, start_depth, obj)
  ELSE Bind(parse_key_value(lines[pos + 1].content, lines[pos + 1].line_num, opts),
            LAMBDA kv :
         IF ~IsOk(kv) THEN kv
         ELSE IF ~kv.val.some
         THEN InvalidLine(lines[pos + 1].line_num, lines[pos + 1].content)
         ELSE Bind(Find(kv.val.key, "["), LAMBDA bracket_pos :
              Bind(entry_value(lines, opts, pos, start_depth, kv.val.key, kv.val.value,
                               bracket_pos, lines[pos + 1].line_num), LAMBDA val :
                IF ~IsOk(val) THEN val
                ELSE decode_object_loop(lines, opts, val.pos, start_depth,
                       MapInsert(obj,
                                 IF bracket_pos # -1 THEN Slice(kv.val.key, 0, bracket_pos)
                                 ELSE kv.val.key,
                                 val.val)))))

decode_object(lines, opts, pos, start_depth) ==
  decode_object_loop(lines, opts, pos, start_depth, <<>>)

\* the root array: the cursor is set to 1
decode_array(lines, opts, depth) ==
  Bind(parse_array_header(lines[1].content, lines[1].line_num, opts), LAMBDA h :
    IF ~IsOk(h) THEN h
    ELSE IF h.val.fields # <<>>
    THEN decode_tabular_array(lines, opts, 1, depth + 1, h.val.length, h.val.delimiter,
                              h.val.fields)
    ELSE decode_list_array(lines, opts, 1, depth + 1, h.val.length, h.val.delimiter))

is_root_array(lines) ==
  IF lines = <<>> THEN FALSE
  ELSE StartsWith(lines[1].content, <<"[">>) /\ ContainsStr(lines[1].content, <<"]", ":">>)

\* Decoder::decode
decoder_decode(lines, opts) ==
  IF lines = <<>> THEN Ok(EmptyObj, 0)
  ELSE IF is_root_array(lines) THEN decode_array(lines, opts, 0)
  ELSE IF Len(lines) = 1 /\ ~is_key_value(lines[1].content)
  THEN parse_primitive(lines[1].content, lines[1].line_num, opts)
  ELSE decode_object(lines, opts, 0, 0)

\* pub fn decode: Ok(value) | Err(DecodeError) | Panic
decode(input, opts) ==
  Bind(parse_lines(input, opts), LAMBDA lines :
    IF ~IsOk(lines) THEN lines ELSE decoder_decode(lines.val, opts))

----------------------------------------------------------------------------
(* The encoder (src/src/encoder.rs): every operator returns the text it      *)
(* pushes onto Encoder.output                                                *)

RECURSIVE NatToText(_)
NatToText(n) == IF n < 10 THEN <<DigitChar(n)>> ELSE NatToText(n \div 10) \o <<DigitChar(n % 10)>>

\* i64::to_string, usize::to_string
IntToText(n) == IF n < 0 THEN <<"-">> \o NatToText(0 - n) ELSE NatToText(n)

RECURSIVE Spaces(_)
Spaces(n) == IF n <= 0 THEN <<>> ELSE <<" ">> \o Spaces(n - 1)

RECURSIVE Zeros(_)
Zeros(n) == IF n <= 0 THEN <<>> ELSE <<"0">> \o Zeros(n - 1)

\* Number::to_string of the float m * 10^e, for the magnitudes that print without an
\* exponent: the digits, with a decimal point and at least one digit after it
FloatToText(m, e) ==
  Bind(NatToText(IF m < 0 THEN 0 - m ELSE m), LAMBDA ds :
  Bind(IF m < 0 THEN <<"-">> ELSE <<>>, LAMBDA sign :
    IF e >= 0 THEN sign \o ds \o Zeros(e) \o <<".", "0">>
    ELSE IF Len(ds) > 0 - e
    THEN sign \o SubSeq(ds, 1, Len(ds) + e) \o <<".">> \o SubSeq(ds, Len(ds) + e + 1, Len(ds))
    ELSE sign \o <<"0", ".">> \o Zeros((0 - e) - Len(ds)) \o ds))

RECURSIVE TrimEndZeros(_)
\* str::trim_end_matches('0')
TrimEndZeros(s) ==
  IF s # <<>> /\ s[Len(s)] = "0" THEN TrimEndZeros(SubSeq(s, 1, Len(s) - 1)) ELSE s

\* an integer prints as it is; a float that is zero prints "0"; another float
\* loses the zeros that end its fraction and then a final "."
normalize_number(n) ==
  IF n.t = "int" THEN IntToText(n.n)
  ELSE IF n.m = 0 THEN <<"0">>
  ELSE Bind(FloatToText(n.m, n.e), LAMBDA s :
         IF Contains(s, ".")
         THEN Bind(TrimEndZeros(s), LAMBDA trimmed :
                IF EndsWith(trimmed, <<".">>) THEN SubSeq(trimmed, 1, Len(trimmed) - 1)
                ELSE trimmed)
         ELSE s)

indent(depth, options) == Spaces(depth * options.indent)

EscapeChar(c) ==
  CASE c = BSLASH -> <<BSLASH, BSLASH>>
    [] c = QUOTE -> <<BSLASH, QUOTE>>
    [] c = NL -> <<BSLASH, "n">>
    [] c = CR -> <<BSLASH, "r">>
    [] c = TAB -> <<BSLASH, "t">>
    [] OTHER -> <<c>>

quote_and_escape(s) ==
  <<QUOTE>> \o Flatten([i \in 1..Len(s) |-> EscapeChar(s[i])]) \o <<QUOTE>>

IsAsciiAlphabetic(c) == c \in Letters

IsAsciiAlphanumeric(c) == c \in Letters \cup Digits

encode_key(key) ==
  LET needs_quoting ==
        \/ key = <<>>
        \/ (~IsAsciiAlphabetic(Head(key)) /\ ~StartsWith(key, <<"_">>))
        \/ ~(\A i \in 1..Len(key) : IsAsciiAlphanumeric(key[i]) \/ key[i] = "_" \/ key[i] = ".")
  IN IF needs_quoting THEN quote_and_escape(key) ELSE key

is_numeric_like(s) ==
  \/ (StartsWith(s, <<"0">>) /\ ByteLength(s) > 1 /\ s[2] \in Digits)
  \/ ParseF64(s).ok

\* a variant of quote_string that looks for the comma whatever the delimiter is
quote_string_comma_only(s, delim) ==
  IF \/ s = <<>>
     \/ StartsWith(s, <<" ">>)
     \/ EndsWith(s, <<" ">>)
     \/ s \in {TxtTrue, TxtFalse, TxtNull}
     \/ StartsWith(s, <<"-">>)
     \/ \E i \in 1..Len(s) : s[i] \in {":", QUOTE, BSLASH, "[", "]", "{", "}", NL, CR, TAB, ","}
     \/ is_numeric_like(s)
  THEN quote_and_escape(s) ELSE s

quote_string(s, delim) ==
  LET needs_quoting ==
        \/ s = <<>>
        \/ StartsWith(s, <<" ">>)
        \/ EndsWith(s, <<" ">>)
        \/ s = TxtTrue
        \/ s = TxtFalse
        \/ s = TxtNull
        \/ s = <<"-">>
        \/ StartsWith(s, <<"-">>)
        \/ Contains(s, ":")
        \/ Contains(s, QUOTE)
        \/ Contains(s, BSLASH)
        \/ Contains(s, "[")
        \/ Contains(s, "]")
        \/ Contains(s, "{")
        \/ Contains(s, "}")
        \/ Contains(s, NL)
        \/ Contains(s, CR)
        \/ Contains(s, TAB)
        \/ Contains(s, as_char(delim))
        \/ is_numeric_like(s)
  IN IF needs_quoting THEN quote_and_escape(s) ELSE s

\* an array or an object gives the empty text
quote_primitive(x, delim) ==
  CASE x.t = "null" -> TxtNull
    [] x.t = "bool" -> IF x.b THEN TxtTrue ELSE TxtFalse
    [] x.t \in {"int", "float"} -> normalize_number(x)
    [] x.t = "str" -> quote_string(x.s, delim)
    [] OTHER -> <<>>

encode_primitive(x, delim) == quote_primitive(x, delim)

\* a variant of is_inline_primitive_array that does not look at the types
is_inline_any_primitives(arr) ==
  \A i \in 1..Len(arr) : IsPrimitive(arr[i])

is_inline_primitive_array(arr) ==
  IF arr = <<>> THEN TRUE
  ELSE IF ~(\A i \in 1..Len(arr) : IsPrimitive(arr[i])) THEN FALSE
  ELSE LET has_number == \E i \in 1..Len(arr) : IsNumber(arr[i])
           has_string == \E i \in 1..Len(arr) : arr[i].t = "str"
           has_bool == \E i \in 1..Len(arr) : arr[i].t = "bool"
           has_null == \E i \in 1..Len(arr) : arr[i].t = "null"
           type_count == Cardinality({b \in {<<"n", has_number>>, <<"s", has_string>>,
                                              <<"b", has_bool>>, <<"z", has_null>>} : b[2]})
       IN type_count = 1

NoFields == [some |-> FALSE, fields |-> <<>>]

\* Some(fields) | None: every element an object with as many entries as the first
\* one, holding a primitive under each key of the first one
detect_tabular(arr) ==
  IF arr = <<>> THEN NoFields
  ELSE IF ~(\A i \in 1..Len(arr) : arr[i].t = "obj") THEN NoFields
  ELSE Bind([i \in 1..Len(arr[1].o) |-> arr[1].o[i].k], LAMBDA fields :
         IF \A i \in 1..Len(arr) :
              /\ Len(arr[i].o) = Len(fields)
              /\ \A j \in 1..Len(fields) :
                   /\ HasKey(arr[i].o, fields[j])
                   /\ IsPrimitive(MapGet(arr[i].o, fields[j]))
         THEN [some |-> TRUE, fields |-> fields]
         ELSE NoFields)

RECURSIVE Join(_, _)
\* the texts of ts with the separator sep pushed between them
Join(ts, sep) ==
  IF ts = <<>> THEN <<>>
  ELSE IF Len(ts) = 1 THEN ts[1]
  ELSE ts[1] \o sep \o Join(Tail(ts), sep)

\* fields is [some, fields]
write_array_header(len, delim, fields) ==
  <<"[">> \o IntToText(len) \o header_symbol(delim) \o <<"]">>
  \o (IF fields.some
      THEN <<"{">> \o Join([i \in 1..Len(fields.fields) |-> encode_key(fields.fields[i])],
                           <<as_char(delim)>>) \o <<"}">>
      ELSE <<>>)
  \o <<":">>

\* the values of an inline array: a space and the delimiter-joined tokens, nothing
\* when the array is empty
InlineValues(arr, delim) ==
  IF arr = <<>> THEN <<>>
  ELSE <<" ">> \o Join([i \in 1..Len(arr) |-> quote_primitive(arr[i], delim)], <<as_char(delim)>>)

\* a variant of TabularRow that joins the values with a comma whatever the
\* delimiter is
TabularRowCommaJoined(map, fields, delim) ==
  Join([j \in 1..Len(fields) |->
          IF HasKey(map, fields[j]) THEN quote_primitive(MapGet(map, fields[j]), delim)
          ELSE <<>>],
       <<",">>)

\* a row of a tabular array: the values of the fields the map holds
TabularRow(map, fields, delim) ==
  Join([j \in 1..Len(fields) |->
          IF HasKey(map, fields[j]) THEN quote_primitive(MapGet(map, fields[j]), delim)
          ELSE <<>>],
       <<as_char(delim)>>)

\* an array that is an item of a list array: written inline whatever it holds
inline_array_item(inner, delim) ==
  write_array_header(Len(inner), delim, NoFields) \o InlineValues(inner, delim)

RECURSIVE encode_object(_, _, _)
RECURSIVE encode_array_after_key(_, _, _)
RECURSIVE encode_object_as_list_item(_, _, _)

encode_object(obj, depth, options) ==
  Flatten([i \in 1..Len(obj) |->
    (IF i > 1 \/ depth > 0 THEN <<NL>> ELSE <<>>)
    \o indent(depth, options)
    \o encode_key(obj[i].k)
    \o (CASE obj[i].val.t = "obj" /\ obj[i].val.o = <<>> -> <<":">>
          [] obj[i].val.t = "obj" /\ obj[i].val.o # <<>> ->
               <<":">> \o encode_object(obj[i].val.o, depth + 1, options)
          [] obj[i].val.t = "arr" -> encode_array_after_key(obj[i].val.a, depth, options)
          [] OTHER -> <<":", " ">> \o encode_primitive(obj[i].val, options.delimiter))])

encode_array_after_key(arr, depth, options) ==
  Bind(detect_tabular(arr), LAMBDA fields :
    IF fields.some
    THEN write_array_header(Len(arr), options.delimiter, fields)
         \o Flatten([i \in 1..Len(arr) |->
              <<NL>> \o indent(depth + 1, options)
              \o TabularRow(arr[i].o, fields.fields, options.delimiter)])
    ELSE write_array_header(Len(arr), options.delimiter, NoFields)
         \o (IF is_inline_primitive_array(arr) THEN InlineValues(arr, options.delimiter)
             ELSE Flatten([i \in 1..Len(arr) |->
                    <<NL>> \o indent(depth + 1, options) \o <<"-", " ">>
                    \o (CASE arr[i].t = "arr" ->
                               inline_array_item(arr[i].a, options.delimiter)
                          [] arr[i].t = "obj" ->
                               encode_object_as_list_item(arr[i].o, depth + 1, options)
                          [] OTHER -> encode_primitive(arr[i], options.delimiter))])))

encode_array(arr, depth, options) == encode_array_after_key(arr, depth, options)

\* first is false at every use after the key is written
encode_object_as_list_item(obj, depth, options) ==
  Flatten([i \in 1..Len(obj) |->
    (IF i > 1 THEN <<NL>> \o indent(depth, options) ELSE <<>>)
    \o encode_key(obj[i].k)
    \o <<":">>
    \o (CASE obj[i].val.t = "obj" /\ obj[i].val.o = <<>> -> <<>>
          [] obj[i].val.t = "obj" /\ obj[i].val.o # <<>> ->
               <<NL>> \o encode_object(obj[i].val.o, depth + 1, options)
          [] obj[i].val.t = "arr" -> encode_array_after_key(obj[i].val.a, depth, options)
          [] OTHER -> <<" ">> \o encode_primitive(obj[i].val, options.delimiter))])

encode_value(x, depth, options) ==
  CASE x.t = "obj" /\ x.o = <<>> -> <<>>
    [] x.t = "obj" /\ x.o # <<>> -> encode_object(x.o, depth, options)
    [] x.t = "arr" -> encode_array(x.a, depth, options)
    [] x.t = "null" -> TxtNull
    [] x.t = "bool" -> IF x.b THEN TxtTrue ELSE TxtFalse
    [] x.t \in {"int", "float"} -> normalize_number(x)
    [] x.t = "str" -> quote_string(x.s, options.delimiter)

\* pub fn encode
encode(x, options) == encode_value(x, 0, options)

----------------------------------------------------------------------------
(* The calls.  A behaviour starts from an input, a value tree to encode or a  *)
(* text to decode, and applies encode and decode to it.                       *)

\* the longest array and the largest object of an input value tree
MaxLen == 2

\* the nesting depth of an input value tree
MaxDepth == 2

\* the longest free text
MaxRaw == 3

Keys == {<<"a">>, <<"b">>}

Prims == {VNull, VInt(1), VStr(<<"x">>)}

SeqsUpTo(S, n) == UNION {[1..k -> S] : k \in 0..n}

\* the objects of at most MaxLen entries with values in E: keys are unique
ObjectsOver(E) ==
  {o \in SeqsUpTo([k : Keys, val : E], MaxLen) :
     \A i, j \in 1..Len(o) : i # j => o[i].k # o[j].k}

RECURSIVE Values(_)
\* the value trees of nesting depth at most d
Values(d) ==
  IF d = 0 THEN Prims
  ELSE LET E == Values(d - 1) IN
       E \cup {VArr(a) : a \in SeqsUpTo(E, MaxLen)} \cup {VObj(o) : o \in ObjectsOver(E)}

NoScenario == [fam |-> "value"]

NoResult == [Ok(NoValue, 0) EXCEPT !.kind = "None"]

\* a value tree and an encoder configuration; the decoder is strict and uses the
\* same indent width
Init ==
  /\ pc = "value"
  /\ scenario = NoScenario
  /\ value \in Values(MaxDepth)
  /\ encOpts \in [indent : {2}, delimiter : Delimiters]
  /\ decOpts = [indent |-> encOpts.indent, strict |-> TRUE]
  /\ text = <<>>
  /\ result = NoResult
  /\ retext = <<>>
  /\ cursor = 0
  /\ frames = <<>>

\* text := encode(value, encOpts)
Encode ==
  /\ pc = "value"
  /\ text' = encode(value, encOpts)
  /\ pc' = "text"
  /\ UNCHANGED <<scenario, value, encOpts, decOpts, result, retext, cursor, frames>>

\* result := decode(text, decOpts)
Decode ==
  /\ pc = "text"
  /\ result' = decode(text, decOpts)
  /\ pc' = "decoded"
  /\ UNCHANGED <<scenario, value, encOpts, decOpts, text, retext, cursor, frames>>

\* retext := encode(result, encOpts), when decode returned a value
Reencode ==
  /\ pc = "decoded"
  /\ scenario.fam = "value"
  /\ IsOk(result)
  /\ retext' = encode(result.val, encOpts)
  /\ pc' = "reencoded"
  /\ UNCHANGED <<scenario, value, encOpts, decOpts, text, result, cursor, frames>>

Next == Encode \/ Decode \/ Reencode

Spec == Init /\ [][Next]_vars

\* C1: round trip -- for every value tree v of finite numbers and each delimiter,
\* decoding the text that encode gives for v, under the matching configuration,
\* returns v
RoundTrip ==
  pc \in {"decoded", "reencoded"} => IsOk(result) /\ result.val = value

\* a root array of primitives of one type: its text is not decoded back to it
RoundTripLost ==
  /\ pc = "decoded"
  /\ value.t = "arr" /\ value.a # <<>> /\ is_inline_primitive_array(value.a)
  /\ ~(IsOk(result) /\ result.val = value)

\* C2: idempotent re-encode -- decode returns a value for the text encode(v, cfg),
\* and encoding that value again under cfg gives the same text
IdempotentReencode ==
  /\ pc = "decoded" => IsOk(result)
  /\ pc = "reencoded" => retext = text

\* decode returned a value for encode(v, cfg) whose text under cfg is another one
ReencodeDiffers == pc = "reencoded" /\ retext # text

\* a text to decode under the decoder configuration of scenario sc
TextInit(sc, t) ==
  /\ pc = "text"
  /\ scenario = sc
  /\ value = NoValue
  /\ encOpts = [indent |-> sc.indent, delimiter |-> "Comma"]
  /\ decOpts = [indent |-> sc.indent, strict |-> sc.strict]
  /\ text = t
  /\ result = NoResult
  /\ retext = <<>>
  /\ cursor = 0
  /\ frames = <<>>

NextText == Decode

----------------------------------------------------------------------------
(* Free texts: every text over a small alphabet that holds the characters the *)
(* decoder treats specially, and a character of more than one byte           *)

RawAlphabet == {"a", "1", QUOTE, ":", MB, " ", BSLASH, "-", "[", NL}

InitRaw ==
  \E t \in SeqsUpTo(RawAlphabet, MaxRaw), st \in BOOLEAN, w \in 1..2 :
    TextInit([fam |-> "raw", strict |-> st, indent |-> w], t)

SpecRaw == InitRaw /\ [][NextText]_vars

\* C3: decode is total -- for every text and every configuration of indent width
\* at least 1, strict or not, decode returns a value tree or one of the seven
\* DecodeError variants and never aborts in another way
DecodeTotal ==
  pc = "decoded" => result.kind \in {"Ok"} \cup DecodeErrorKinds

\* the text of one double quote makes decode abort
LoneQuoteAborts ==
  pc = "decoded" /\ text = <<QUOTE>> /\ result.kind = "Panic"

----------------------------------------------------------------------------
(* Array texts.  An array is written at one of four places: as the field k of *)
(* the root object, as the field k of the object o, as the only item of the   *)
(* list k, or as the root of the document.  Its header line has depth         *)
(* HeaderDepth and the lines of its body are one level deeper.                *)

Places == {"key", "nested", "item", "root"}

Names == <<"a", "b", "c", "d", "e", "f", "g", "h">>

HeaderDepth(where) == IF where \in {"key", "root"} THEN 0 ELSE 1

\* the lines before the header line
LinesBefore(where) ==
  CASE where = "nested" -> << <<"o", ":">> >>
    [] where = "item" -> << <<"k", "[", "1", "]", ":">> >>
    [] OTHER -> <<>>

\* [ length marker ] fields :
HeaderText(lenText, marker, close, fieldList) ==
  <<"[">> \o lenText \o marker \o (IF close THEN <<"]">> ELSE <<>>) \o fieldList \o <<":">>

\* the text of the array with this header, the text rest after the colon, the
\* body lines body and the lines after, which are siblings of the header line
ArrayText(where, width, header, rest, body, after) ==
  LET d == HeaderDepth(where)
      lead == CASE where = "root" -> <<>>
                [] where = "item" -> <<"-", " ">>
                [] OTHER -> <<"k">>
  IN Join(LinesBefore(where)
          \o << Spaces(d * width) \o lead \o header \o rest >>
          \o [i \in 1..Len(body) |->
                IF body[i] = <<>> THEN <<>> ELSE Spaces((d + 1) * width) \o body[i]]
          \o [i \in 1..Len(after) |-> Spaces(d * width) \o after[i]],
          <<NL>>)

\* the physical line number of the i-th body line
BodyLine(where, i) == Len(LinesBefore(where)) + 1 + i

\* the value of the document whose array is arr
Around(where, arr) ==
  CASE where = "key" -> VObj(<< [k |-> <<"k">>, val |-> arr] >>)
    [] where = "nested" ->
         VObj(<< [k |-> <<"o">>, val |-> VObj(<< [k |-> <<"k">>, val |-> arr] >>)] >>)
    [] where = "item" -> VObj(<< [k |-> <<"k">>, val |-> VArr(<<arr>>)] >>)
    [] where = "root" -> arr

----------------------------------------------------------------------------
(* Inline arrays: a header that declares n and, after the colon, the tokens   *)
(* toks joined by the delimiter                                               *)

\* the most tokens after the colon
MaxToks == 3

TokKinds == {"bare", "number", "quoted"}

\* a quoted token holds the delimiter
TokText(kind, delim) ==
  CASE kind = "bare" -> <<"a">>
    [] kind = "number" -> <<"2">>
    [] kind = "quoted" -> <<QUOTE, "x", as_char(delim), "y", QUOTE>>

TokValue(kind, delim) ==
  CASE kind = "bare" -> VStr(<<"a">>)
    [] kind = "number" -> VInt(2)
    [] kind = "quoted" -> VStr(<<"x", as_char(delim), "y">>)

InlineText(sc) ==
  ArrayText(sc.where, sc.indent,
            HeaderText(NatToText(sc.n), header_symbol(sc.delim), TRUE, <<>>),
            <<" ">> \o Join([i \in 1..Len(sc.toks) |-> TokText(sc.toks[i], sc.delim)],
                            <<as_char(sc.delim)>>),
            <<>>, <<>>)

InlineValue(sc) ==
  Around(sc.where, VArr([i \in 1..Len(sc.toks) |-> TokValue(sc.toks[i], sc.delim)]))

InitInline ==
  \E w \in Places, st \in BOOLEAN, d \in Delimiters, n \in 0..(MaxToks + 1),
     toks \in SeqsUpTo(TokKinds, MaxToks) \ {<<>>} :
    LET sc == [fam |-> "inline", where |-> w, strict |-> st, indent |-> 2, delim |-> d,
               n |-> n, toks |-> toks]
    IN TextInit(sc, InlineText(sc))

SpecInline == InitInline /\ [][NextText]_vars

\* C4: strict inline count enforcement -- in strict mode an inline array whose
\* header declares N and whose text after the colon splits into M # N tokens fails
\* with ArrayLengthMismatch{expected: N, found: M}
StrictInlineCount ==
  pc = "decoded" /\ scenario.strict /\ Len(scenario.toks) # scenario.n
    => result = ArrayLengthMismatch(scenario.n, Len(scenario.toks))

\* a root array with tokens after the colon is reported to hold no element
RootInlineCountsNothing ==
  /\ pc = "decoded" /\ scenario.strict /\ scenario.where = "root"
  /\ Len(scenario.toks) # scenario.n
  /\ result = ArrayLengthMismatch(scenario.n, 0)

\* C5: non-strict inline recovery -- in non-strict mode an inline array whose
\* declared length N differs from its M tokens decodes to the array of exactly the
\* M parsed tokens, in order
LenientInlineKeepsTokens ==
  pc = "decoded" /\ ~scenario.strict /\ Len(scenario.toks) # scenario.n
    => IsOk(result) /\ result.val = InlineValue(scenario)

\* a root array with tokens after the colon decodes to the empty array
RootInlineLosesTokens ==
  /\ pc = "decoded" /\ ~scenario.strict /\ scenario.where = "root"
  /\ Len(scenario.toks) # scenario.n
  /\ IsOk(result) /\ result.val = VArr(<<>>)

----------------------------------------------------------------------------
(* Arrays over several lines.  A tabular array declares n rows and f fields;  *)
(* its i-th row holds rows[i] cells.  A list array declares n items; its i-th *)
(* item is a primitive (rows[i] = 1), an inline array (2) or an object of     *)
(* rows[i] - 1 fields, the first one on the hyphen line.  A blank line may    *)
(* follow the header and a sibling field z may follow the body.               *)

\* the most rows or items below a header
MaxRows == 2

\* the most declared fields
MaxFields == 2

\* the most cells of a row, and the most lines of an item plus one
MaxCells == 3

FieldList(f, delim) ==
  <<"{">> \o Join([j \in 1..f |-> <<Names[j]>>], <<as_char(delim)>>) \o <<"}">>

RowText(cells, delim) ==
  Join([j \in 1..cells |-> <<DigitChar(j)>>], <<as_char(delim)>>)

\* the lines of a list item
ItemLines(size) ==
  IF size = 1 THEN << <<"-", " ", "7">> >>
  ELSE IF size = 2 THEN << <<"-", " ", "[", "1", "]", ":", " ", "5">> >>
  ELSE << <<"-", " ", Names[1], ":", " ", "1">> >>
       \o [j \in 1..(size - 2) |-> <<Names[j + 1], ":", " ", "1">>]

BlankLines(sc) == IF sc.blank THEN 1 ELSE 0

MultiLineText(sc) ==
  ArrayText(sc.where, sc.indent,
            HeaderText(NatToText(sc.n), header_symbol(sc.delim), TRUE,
                       IF sc.form = "tabular" THEN FieldList(sc.f, sc.delim) ELSE <<>>),
            <<>>,
            (IF sc.blank THEN << <<>> >> ELSE <<>>)
            \o (IF sc.form = "tabular"
                THEN [i \in 1..Len(sc.rows) |-> RowText(sc.rows[i], sc.delim)]
                ELSE Flatten([i \in 1..Len(sc.rows) |-> ItemLines(sc.rows[i])])),
            IF sc.tail THEN << <<"z", ":", " ", "1">> >> ELSE <<>>)

\* the rows whose cells are not as many as the declared fields
BadRows(sc) == {i \in 1..Len(sc.rows) : sc.rows[i] # sc.f}

FirstBadRow(sc) == CHOOSE i \in BadRows(sc) : \A j \in BadRows(sc) : i <= j

MultiLineScenario(form, w, st, d, n, f, rows, blank, tail) ==
  [fam |-> "rows", form |-> form, where |-> w, strict |-> st, indent |-> 2, delim |-> d,
   n |-> n, f |-> f, rows |-> rows, blank |-> blank, tail |-> tail]

InitMultiLine ==
  \E w \in Places \ {"item"}, st \in BOOLEAN, d \in Delimiters, n \in 0..(MaxRows + 1),
     rows \in SeqsUpTo(1..MaxCells, MaxRows), blank \in BOOLEAN, tail \in BOOLEAN :
    \/ \E f \in 1..MaxFields :
         LET sc == MultiLineScenario("tabular", w, st, d, n, f, rows, blank, tail)
         IN TextInit(sc, MultiLineText(sc))
    \/ LET sc == MultiLineScenario("list", w, st, d, n, 0, rows, blank, tail)
       IN TextInit(sc, MultiLineText(sc))

SpecMultiLine == InitMultiLine /\ [][NextText]_vars

\* C6: strict row-width enforcement -- in strict mode the first row of a tabular
\* array of F declared fields whose cell count C differs from F makes decode fail
\* with RowWidthMismatch{line: the physical line number of that row, expected: F,
\* found: C}, whether or not the rows are as many as declared
StrictRowWidth ==
  pc = "decoded" /\ scenario.strict /\ scenario.form = "tabular" /\ BadRows(scenario) # {}
    => result = RowWidthMismatch(
                  BodyLine(scenario.where, BlankLines(scenario) + FirstBadRow(scenario)),
                  scenario.f, scenario.rows[FirstBadRow(scenario)])

\* a bad second row below a blank line, in an array that declares another number
\* of rows than it holds, is reported by its line number
BadRowReported ==
  /\ pc = "decoded" /\ scenario.strict /\ scenario.form = "tabular" /\ scenario.blank
  /\ BadRows(scenario) = {2} /\ scenario.n # Len(scenario.rows)
  /\ result.kind = "RowWidthMismatch"
  /\ result.line = BodyLine(scenario.where, 3)

\* C7: strict element count -- in strict mode a tabular array with R rows, or a
\* list array with R hyphen items, that declares a length N # R makes decode fail
\* with ArrayLengthMismatch{expected: N, found: R}
StrictElementCount ==
  pc = "decoded" /\ scenario.strict
  /\ (scenario.form = "tabular" => BadRows(scenario) = {})
  /\ Len(scenario.rows) # scenario.n
    => result = ArrayLengthMismatch(scenario.n, Len(scenario.rows))

\* a list of two items, one of them an object on two lines, that declares three
ItemCountReported ==
  /\ pc = "decoded" /\ scenario.strict /\ scenario.form = "list"
  /\ Len(scenario.rows) = 2 /\ scenario.n = 3
  /\ \E i \in 1..2 : scenario.rows[i] = 3
  /\ result = ArrayLengthMismatch(3, 2)

----------------------------------------------------------------------------
(* Indentation.  A text of fields: the i-th line is  <letter>: 1  or, to open *)
(* a nested object,  <letter>:  behind a number of spaces; a lead of -1 stands *)
(* for a blank line.                                                          *)

\* the widest indent width
MaxIndent == 3

\* the most leading spaces of a line
MaxLead == 3

\* the most physical lines
MaxLines == 3

LineShapes == {[lead |-> -1, open |-> FALSE]} \cup [lead : 0..MaxLead, open : BOOLEAN]

IndentedText(leads) ==
  Join([i \in 1..Len(leads) |->
          IF leads[i].lead = -1 THEN <<>>
          ELSE Spaces(leads[i].lead) \o <<Names[i], ":">>
               \o (IF leads[i].open THEN <<>> ELSE <<" ", "1">>)],
       <<NL>>)

\* the non-blank lines whose leading spaces are not a multiple of the indent width
BadLines(sc) ==
  {i \in 1..Len(sc.leads) : sc.leads[i].lead # -1 /\ sc.leads[i].lead % sc.indent # 0}

FirstBadLine(sc) == CHOOSE i \in BadLines(sc) : \A j \in BadLines(sc) : i <= j

\* every line moved back to the last multiple of the indent width
Realigned(sc) ==
  [i \in 1..Len(sc.leads) |->
     IF sc.leads[i].lead = -1 THEN sc.leads[i]
     ELSE [sc.leads[i] EXCEPT !.lead = sc.indent * (sc.leads[i].lead \div sc.indent)]]

InitIndent ==
  \E st \in BOOLEAN, w \in 1..MaxIndent, leads \in SeqsUpTo(LineShapes, MaxLines) :
    TextInit([fam |-> "indent", strict |-> st, indent |-> w, leads |-> leads],
             IndentedText(leads))

SpecIndent == InitIndent /\ [][NextText]_vars

\* C8: strict indentation validation -- in strict mode a text with a non-blank
\* line whose leading-space count is not a multiple of the indent width fails with
\* InvalidIndentation{line}, line being the physical line number of the first such
\* line, blank lines before it counted
StrictIndentation ==
  pc = "decoded" /\ scenario.strict /\ BadLines(scenario) # {}
    => result = InvalidIndentation(FirstBadLine(scenario))

\* the first badly indented line comes after a blank line and is reported
BadLineAfterBlank ==
  /\ pc = "decoded" /\ scenario.strict /\ BadLines(scenario) # {}
  /\ \E i \in 1..Len(scenario.leads) :
       i < FirstBadLine(scenario) /\ scenario.leads[i].lead = -1
  /\ result = InvalidIndentation(FirstBadLine(scenario))

\* C9 as stated: also in non-strict mode a text with a non-blank line whose
\* leading-space count is not a multiple of the indent width fails with
\* InvalidIndentation
IndentationFatalInBothModes ==
  pc = "decoded" /\ BadLines(scenario) # {} => result.kind = "InvalidIndentation"

\* C9 as the code has it: in non-strict mode the indentation is not validated --
\* a text with such a line does not fail with InvalidIndentation; every line of
\* L leading spaces is taken at depth L div width, and decode returns the value it
\* returns for the same lines moved back to width * (L div width) spaces
LenientIndentation ==
  pc = "decoded" /\ ~scenario.strict /\ BadLines(scenario) # {}
    => /\ IsOk(result)
       /\ result = decode(IndentedText(Realigned(scenario)), decOpts)
       /\ result = decode(IndentedText(Realigned(scenario)),
                          [decOpts EXCEPT !.strict = TRUE])

\* a badly indented text decoded in non-strict mode
BadLineAccepted ==
  /\ pc = "decoded" /\ ~scenario.strict /\ BadLines(scenario) # {}
  /\ IsOk(result) /\ result.val.o # <<>>

----------------------------------------------------------------------------
(* Array headers.  A header with the length text len, the marker of a         *)
(* delimiter, and its closing bracket or none; the two elements 1 and 2 follow *)
(* the colon (inline) or stand on hyphen lines below it (list).               *)

LengthTexts ==
  {<<>>, <<"2">>, <<"x">>, <<"-", "2">>, <<"+", "2">>, <<"2", ".", "0">>, <<"2", "x">>,
   <<" ", "2">>}

HeaderForms == {"inline", "list"}

HeaderCaseText(sc) ==
  ArrayText(sc.where, sc.indent,
            HeaderText(sc.len, header_symbol(sc.delim), sc.close, <<>>),
            IF sc.form = "inline" THEN <<" ", "1", as_char(sc.delim), "2">> ELSE <<>>,
            IF sc.form = "list" THEN << <<"-", " ", "1">>, <<"-", " ", "2">> >> ELSE <<>>,
            <<>>)

\* the header has no closing bracket, or its length text is not decimal digits
Malformed(sc) == ~sc.close \/ ~AllDigits(sc.len)

InitHeader ==
  \E w \in Places, st \in BOOLEAN, d \in Delimiters, len \in LengthTexts,
     close \in BOOLEAN, form \in HeaderForms :
    LET sc == [fam |-> "header", where |-> w, strict |-> st, indent |-> 2, delim |-> d,
               len |-> len, close |-> close, form |-> form]
    IN TextInit(sc, HeaderCaseText(sc))

SpecHeader == InitHeader /\ [][NextText]_vars

\* C10: array-header length validation -- in both modes an array header without
\* its closing ], or whose length text (between [ and ], without a trailing tab or
\* pipe marker) is not a non-negative integer written as decimal digits, makes
\* decode fail with InvalidArrayHeader; on object keys, on list items and at the
\* root
MalformedHeaderRejected ==
  pc = "decoded" /\ Malformed(scenario) => result.kind = "InvalidArrayHeader"

\* the length text +2 is taken as the length 2
SignedLengthAccepted ==
  /\ pc = "decoded" /\ scenario.len = <<"+", "2">> /\ scenario.close
  /\ scenario.form = "inline" /\ scenario.where = "key"
  /\ IsOk(result)
  /\ result.val = Around("key", VArr(<<VInt(1), VInt(2)>>))

----------------------------------------------------------------------------
(* Tokens: the primitive parser applied to one token, as it is to a cell of a *)
(* row, an element of an inline array, a field value or a one-line document   *)

\* the longest token
MaxTok == 4

TokAlphabet == {"0", "7", ".", "-", "+", "e", "a", " "}

\* a token to parse under the decoder configuration of scenario sc
TokenInit(sc, t) ==
  /\ pc = "token"
  /\ scenario = sc
  /\ value = NoValue
  /\ encOpts = [indent |-> 2, delimiter |-> "Comma"]
  /\ decOpts = [indent |-> 2, strict |-> sc.strict]
  /\ text = t
  /\ result = NoResult
  /\ retext = <<>>
  /\ cursor = 0
  /\ frames = <<>>

\* result := parse_primitive(text, 1)
ParsePrimitive ==
  /\ pc = "token"
  /\ result' = parse_primitive(text, 1, decOpts)
  /\ pc' = "parsed"
  /\ UNCHANGED <<scenario, value, encOpts, decOpts, text, retext, cursor, frames>>

NextToken == ParsePrimitive

InitToken ==
  \E t \in SeqsUpTo(TokAlphabet, MaxTok), st \in BOOLEAN :
    TokenInit([fam |-> "token", strict |-> st], t)

SpecToken == InitToken /\ [][NextToken]_vars

\* the tokens the guard lets through to the numeric parse
NumberAllowed(t) ==
  \/ t = <<"0">>
  \/ StartsWith(t, <<"0", ".">>)
  \/ StartsWith(t, <<"-", "0">>)
  \/ (t # <<>> /\ ~StartsWith(t, <<"0">>))

\* C11: leading-zero guard -- for an unquoted token other than true, false and
\* null, the primitive parser returns a number only if the token is exactly "0",
\* starts with "0.", starts with "-0" or does not start with "0", and parses as a
\* 64-bit signed integer or a double; every other token that starts with "0" is
\* returned as the string equal to the token
LeadingZeroGuard ==
  pc = "parsed" /\ scenario.fam = "token" =>
    /\ IsOk(result)
    /\ IsNumber(result.val) =>
         /\ NumberAllowed(Trim(text))
         /\ ParseI64(Trim(text)).ok \/ ParseF64(Trim(text)).ok
    /\ StartsWith(Trim(text), <<"0">>) /\ ~NumberAllowed(Trim(text)) =>
         result.val = VStr(Trim(text))

\* the zero-padded token 007 is returned as the string 007
ZeroPaddedKept ==
  /\ pc = "parsed"
  /\ text = <<"0", "0", "7">>
  /\ result = Ok(VStr(<<"0", "0", "7">>), 0)

----------------------------------------------------------------------------
(* Strings: the encoder's quoting decision for a string value under each      *)
(* delimiter                                                                  *)

\* the longest string
MaxStr == 3

StrAlphabet ==
  {"a", "0", "7", ".", "e", " ", "-", ":", QUOTE, BSLASH, "[", "]", "{", "}", NL, CR, TAB,
   ",", "|", MB}

\* the strings that need more letters than the alphabet holds
Words == {TxtTrue, TxtFalse, TxtNull, <<"i", "n", "f">>, <<"n", "a", "n">>}

\* a string value to write under the delimiter d
StringInit(sc, s, d) ==
  /\ pc = "string"
  /\ scenario = sc
  /\ value = VStr(s)
  /\ encOpts = [indent |-> 2, delimiter |-> d]
  /\ decOpts = [indent |-> 2, strict |-> TRUE]
  /\ text = <<>>
  /\ result = NoResult
  /\ retext = <<>>
  /\ cursor = 0
  /\ frames = <<>>

\* text := quote_string(value, delimiter)
QuoteString ==
  /\ pc = "string"
  /\ text' = quote_string(value.s, encOpts.delimiter)
  /\ pc' = "quoted"
  /\ UNCHANGED <<scenario, value, encOpts, decOpts, result, retext, cursor, frames>>

NextString == QuoteString

InitString ==
  \E s \in SeqsUpTo(StrAlphabet, MaxStr) \cup Words, d \in Delimiters :
    StringInit([fam |-> "string"], s, d)

SpecString == InitString /\ [][NextString]_vars

\* the conditions under which a string value is written in quotes
MustQuote(s, d) ==
  \/ s = <<>>
  \/ Head(s) = " "
  \/ s[Len(s)] = " "
  \/ s \in {TxtTrue, TxtFalse, TxtNull, <<"-">>}
  \/ Head(s) = "-"
  \/ \E i \in 1..Len(s) : s[i] \in {":", QUOTE, BSLASH, "[", "]", "{", "}", NL, CR, TAB}
  \/ \E i \in 1..Len(s) : s[i] = as_char(d)
  \/ is_numeric_like(s)

\* C12: delimiter-aware quoting -- the encoder writes a string value inside double
\* quotes exactly when it is empty, starts or ends with a space, is true, false,
\* null or -, starts with -, holds one of : " \ [ ] { } newline carriage-return
\* tab, holds the active delimiter character, or is numeric-like, and writes it as
\* it is otherwise; a string whose only such character is a comma is quoted under
\* Comma and unquoted under Pipe
DelimiterAwareQuoting ==
  pc = "quoted" /\ scenario.fam = "string" =>
    IF MustQuote(value.s, encOpts.delimiter)
    THEN /\ Len(text) >= 2 /\ Head(text) = QUOTE /\ text[Len(text)] = QUOTE
         /\ text = quote_and_escape(value.s)
    ELSE text = value.s

\* a,b is written unquoted under the Pipe delimiter
CommaUnquotedUnderPipe ==
  /\ pc = "quoted"
  /\ value = VStr(<<"a", ",", "a">>)
  /\ encOpts.delimiter = "Pipe"
  /\ text = <<"a", ",", "a">>

----------------------------------------------------------------------------
(* Arrays to encode: an array of primitives, objects and arrays, written as   *)
(* the root, as the field k of the root object or as the field k of the       *)
(* object o                                                                   *)

\* the longest array to encode
MaxElems == 2

ElemPrims ==
  {VNull, VBool(TRUE), VInt(1), VFloat(5, -1), VStr(<<"x">>), VStr(<<"a", ",", "b">>)}

\* the objects of at most two fields a, b in either order with primitive values,
\* and an object that holds an array
ElemObjects ==
  {VObj(o) : o \in {o \in SeqsUpTo([k : Keys, val : {VInt(1), VStr(<<"a", ",", "b">>)}], 2) :
                      \A i, j \in 1..Len(o) : i # j => o[i].k # o[j].k}}
  \cup {VObj(<< [k |-> <<"a">>, val |-> VArr(<<>>)] >>)}

ElemArrays == {VArr(<<>>), VArr(<<VInt(1)>>)}

Elems == ElemPrims \cup ElemObjects \cup ElemArrays

EncodePlaces == {"key", "nested", "root"}

\* the array arr to encode at the place where under the delimiter d
ArrayInit(sc, arr, d) ==
  /\ pc = "value"
  /\ scenario = sc
  /\ value = Around(sc.where, VArr(arr))
  /\ encOpts = [indent |-> 2, delimiter |-> d]
  /\ decOpts = [indent |-> 2, strict |-> TRUE]
  /\ text = <<>>
  /\ result = NoResult
  /\ retext = <<>>
  /\ cursor = 0
  /\ frames = <<>>

InitArray ==
  \E arr \in SeqsUpTo(Elems, MaxElems), where \in EncodePlaces, d \in Delimiters :
    ArrayInit([fam |-> "array", where |-> where, arr |-> arr], arr, d)

NextArray == Encode

SpecArray == InitArray /\ [][NextArray]_vars

\* the field names of an object, in its order
FieldNames(o) == [i \in 1..Len(o) |-> o[i].k]

\* every element is an object with only primitive values
PrimitiveObjects(arr) ==
  \A i \in 1..Len(arr) :
    /\ arr[i].t = "obj"
    /\ \A j \in 1..Len(arr[i].o) : IsPrimitive(arr[i].o[j].val)

\* non-empty, and every element is an object with the field names of the first
\* one in the same order and only primitive values
Uniform(arr) ==
  /\ arr # <<>>
  /\ PrimitiveObjects(arr)
  /\ \A i \in 1..Len(arr) : FieldNames(arr[i].o) = FieldNames(arr[1].o)

\* the header [N<marker>]{f1<delim>f2...}: of the fields fs, without the braces
\* when fs is empty
ArrayHeader(n, d, fs) ==
  HeaderText(IntToText(n), header_symbol(d), TRUE,
             IF fs = <<>> THEN <<>>
             ELSE <<"{">> \o Join([j \in 1..Len(fs) |-> encode_key(fs[j])], <<as_char(d)>>)
                  \o <<"}">>)

\* the row of the object o: its values in its field order, joined by the delimiter
RowOf(o, d) == Join([j \in 1..Len(o) |-> quote_primitive(o[j].val, d)], <<as_char(d)>>)

Reordered(arr) ==
  /\ arr # <<>>
  /\ PrimitiveObjects(arr)
  /\ \A i \in 1..Len(arr) :
       {arr[i].o[j].k : j \in 1..Len(arr[i].o)} = {arr[1].o[j].k : j \in 1..Len(arr[1].o)}
  /\ \E i \in 1..Len(arr) : FieldNames(arr[i].o) # FieldNames(arr[1].o)

\* C14: field order blocks tabular form -- when the objects of an array have the
\* same set of field names and only primitive values but one of them stores its
\* fields in another order than the first, the encoder writes the array as a
\* list: a header without fields and one hyphen item per object
FieldOrderBlocksTabular ==
  pc = "text" /\ scenario.fam = "array" /\ Reordered(scenario.arr) =>
    /\ ~Contains(text, "{")
    /\ LET ls == Lines(text)
           first == Len(LinesBefore(scenario.where)) + 1
       IN /\ ls[first] =
               Spaces(HeaderDepth(scenario.where) * encOpts.indent)
               \o (IF scenario.where = "root" THEN <<>> ELSE <<"k">>)
               \o ArrayHeader(Len(scenario.arr), encOpts.delimiter, <<>>)
          /\ Cardinality({i \in (first + 1)..Len(ls) :
                            StartsWith(TrimStart(ls[i]), <<"-", " ">>)}) = Len(scenario.arr)

\* [{"a": 1, "b": 1}, {"b": 1, "a": 1}] at the root under Comma is written as a
\* table, the second row in the field order of the first object
ReorderedWrittenAsTable ==
  /\ pc = "text" /\ scenario.fam = "array" /\ scenario.where = "root"
  /\ encOpts.delimiter = "Comma"
  /\ scenario.arr = << VObj(<< [k |-> <<"a">>, val |-> VInt(1)], [k |-> <<"b">>, val |-> VInt(1)] >>),
                       VObj(<< [k |-> <<"b">>, val |-> VInt(1)], [k |-> <<"a">>, val |-> VInt(1)] >>) >>
  /\ Lines(text) = << <<"[", "2", "]", "{", "a", ",", "b", "}", ":">>,
                      <<" ", " ", "1", ",", "1">>, <<" ", " ", "1", ",", "1">> >>

\* the type tag of a primitive: number, string, bool or null
TypeTag(x) == IF IsNumber(x) THEN "number" ELSE x.t

\* empty, or primitives of one single type tag
SingleTag(arr) ==
  \/ arr = <<>>
  \/ /\ \A i \in 1..Len(arr) : IsPrimitive(arr[i])
     /\ Cardinality({TypeTag(arr[i]) : i \in 1..Len(arr)}) = 1

\* the inline text of arr: the header, then a space and the delimiter-joined
\* values on the same line, nothing after the colon when arr is empty
InlineForm(where, width, d, arr) ==
  ArrayText(where, width, ArrayHeader(Len(arr), d, <<>>),
            IF arr = <<>> THEN <<>>
            ELSE <<" ">> \o Join([i \in 1..Len(arr) |-> quote_primitive(arr[i], d)],
                                 <<as_char(d)>>),
            <<>>, <<>>)

\* the list text of an array of primitives: the header and one "- " line per
\* element at depth+1
ListForm(where, width, d, arr) ==
  ArrayText(where, width, ArrayHeader(Len(arr), d, <<>>), <<>>,
            [i \in 1..Len(arr) |-> <<"-", " ">> \o quote_primitive(arr[i], d)], <<>>)

----------------------------------------------------------------------------
(* Root documents: short texts of quotes, escapes and colons, decoded as a   *)
(* whole document                                                             *)

\* the longest root document
MaxRoot == 5

RootAlphabet == {"a", QUOTE, ":", BSLASH, NL, " "}

InitRoot ==
  \E t \in SeqsUpTo(RootAlphabet, MaxRoot), st \in BOOLEAN :
    TextInit([fam |-> "root", strict |-> st, indent |-> 2], t)

SpecRoot == InitRoot /\ [][NextText]_vars

RECURSIVE ColonOutsideQuotes(_, _)
\* the line holds a colon outside double quotes, a backslash inside quotes taking
\* the character after it with it (so an escaped quote does not close the quotes)
ColonOutsideQuotes(rest, in_quotes) ==
  IF rest = <<>> THEN FALSE
  ELSE IF in_quotes /\ Head(rest) = BSLASH
       THEN ColonOutsideQuotes(SubSeq(rest, 3, Len(rest)), in_quotes)
  ELSE IF Head(rest) = QUOTE THEN ColonOutsideQuotes(Tail(rest), ~in_quotes)
  ELSE IF Head(rest) = ":" /\ ~in_quotes THEN TRUE
  ELSE ColonOutsideQuotes(Tail(rest), in_quotes)

\* the same outcome, whatever the cursor
SameOutcome(r1, r2) == [r1 EXCEPT !.pos = 0] = [r2 EXCEPT !.pos = 0]

\* C16: root dispatch for documents that are no array -- a text without a
\* non-blank line decodes to the empty object; a text with exactly one non-blank
\* line that has no colon outside double quotes decodes to the primitive the
\* primitive parser gives for that line, also when the line is a quoted string
\* holding an escaped quote followed by a colon; every other text is decoded as
\* an object at depth 0
RootDispatch ==
  pc = "decoded" /\ scenario.fam = "root" /\ IsOk(parse_lines(text, decOpts))
  /\ ~is_root_array(parse_lines(text, decOpts).val) =>
    LET lines == parse_lines(text, decOpts).val IN
    IF lines = <<>> THEN SameOutcome(result, Ok(EmptyObj, 0))
    ELSE IF Len(lines) = 1 /\ ~ColonOutsideQuotes(lines[1].content, FALSE)
    THEN SameOutcome(result, parse_primitive(lines[1].content, lines[1].line_num, decOpts))
    ELSE SameOutcome(result, decode_object(lines, decOpts, 0, 0))

\* the encoded root string ": (quote, colon) is refused as a line of an object
EscapedQuoteThenColonRefused ==
  /\ pc = "decoded"
  /\ text = <<QUOTE, BSLASH, QUOTE, ":", QUOTE>>
  /\ text = encode(VStr(<<QUOTE, ":">>), encOpts)
  /\ result = InvalidLine(1, text)

----------------------------------------------------------------------------
(* The root array *)

\* C17: root arrays share the array handling of object-field arrays -- when the
\* first line is an array header and tokens follow its colon on the same line, as
\* many as the header declares, decode returns the inline array of those tokens
RootInlineShared ==
  pc = "decoded" /\ scenario.fam = "inline" /\ scenario.where = "root"
  /\ Len(scenario.toks) = scenario.n =>
    IsOk(result) /\ result.val = InlineValue(scenario)

\* the root array [1]: 2, the form the encoder writes for [2], is refused in
\* strict mode: no element is found
RootInlineNotRead ==
  /\ pc = "decoded" /\ scenario.fam = "inline" /\ scenario.strict
  /\ text = <<"[", "1", "]", ":", " ", "2">>
  /\ text = encode(VArr(<<VInt(2)>>), encOpts)
  /\ result = ArrayLengthMismatch(1, 0)

----------------------------------------------------------------------------
(* Scalars there and back: strings are written as the tokens of one line,    *)
(* joined by the delimiter, and the line is split and parsed again            *)

\* the longest string written as a token
MaxScalar == 2

\* the most tokens on the line
MaxJoined == 2

ScalarAlphabet == {"a", "0", " ", QUOTE, BSLASH, ",", "|", TAB, FF, "-"}

Scalars == SeqsUpTo(ScalarAlphabet, MaxScalar) \cup {TxtTrue, <<"i", "n", "f">>}

\* the strings ss to write under the delimiter d
ScalarsInit(sc, ss, d) ==
  /\ pc = "strings"
  /\ scenario = sc
  /\ value = VArr([i \in 1..Len(ss) |-> VStr(ss[i])])
  /\ encOpts = [indent |-> 2, delimiter |-> d]
  /\ decOpts = [indent |-> 2, strict |-> TRUE]
  /\ text = <<>>
  /\ result = NoResult
  /\ retext = <<>>
  /\ cursor = 0
  /\ frames = <<>>

InitScalars ==
  \E ss \in SeqsUpTo(Scalars, MaxJoined) \ {<<>>}, d \in Delimiters :
    ScalarsInit([fam |-> "scalars"], ss, d)

\* text := the tokens quote_string gives for the strings, joined by the delimiter
QuoteTokens ==
  /\ pc = "strings"
  /\ text' = Join([i \in 1..Len(value.a) |-> quote_string(value.a[i].s, encOpts.delimiter)],
                  <<as_char(encOpts.delimiter)>>)
  /\ pc' = "tokens"
  /\ UNCHANGED <<scenario, value, encOpts, decOpts, result, retext, cursor, frames>>

\* result := split_by_delimiter(text, delimiter)
SplitTokens ==
  /\ pc = "tokens"
  /\ result' = Ok(split_by_delimiter(text, encOpts.delimiter), 0)
  /\ pc' = "split"
  /\ UNCHANGED <<scenario, value, encOpts, decOpts, text, retext, cursor, frames>>

\* result := the tokens, each through parse_primitive
ParseTokens ==
  /\ pc = "split"
  /\ result' = parse_all(result.val, <<>>, 1, decOpts)
  /\ pc' = "parsed"
  /\ UNCHANGED <<scenario, value, encOpts, decOpts, text, retext, cursor, frames>>

NextScalars == QuoteTokens \/ SplitTokens \/ ParseTokens

SpecScalars == InitScalars /\ [][NextScalars]_vars

\* C18: encoder and decoder agree on the quoting of scalars -- for every string s
\* and every delimiter d, the strict primitive parser returns the string s for the
\* token the encoder writes for s under d, never a number, a boolean or null and
\* without losing a character to trimming or escaping, and splitting a
\* delimiter-joined list of such tokens on d returns the tokens unchanged
QuotingAgrees ==
  /\ pc = "split" /\ scenario.fam = "scalars" =>
       result.val = [i \in 1..Len(value.a) |->
                       quote_string(value.a[i].s, encOpts.delimiter)]
  /\ pc = "parsed" /\ scenario.fam = "scalars" => result = Ok(value.a, 0)

\* the string of a form feed and an a is written unquoted and parsed as a alone
WhitespaceLost ==
  /\ pc = "parsed" /\ scenario.fam = "scalars"
  /\ value = VArr(<< VStr(<<FF, "a">>) >>)
  /\ text = <<FF, "a">>
  /\ result = Ok(<< VStr(<<"a">>) >>, 0)

----------------------------------------------------------------------------
(* Quoted content: the text between a pair of quotes, unescaped on the line   *)
(* line_num                                                                   *)

\* the longest quoted content
MaxEsc == 4

EscAlphabet == {"a", "n", "x", BSLASH, QUOTE, MB}

\* the content to unescape
EscapeInit(sc, content) ==
  /\ pc = "content"
  /\ scenario = sc
  /\ value = NoValue
  /\ encOpts = [indent |-> 2, delimiter |-> "Comma"]
  /\ decOpts = [indent |-> 2, strict |-> sc.strict]
  /\ text = <<QUOTE>> \o content \o <<QUOTE>>
  /\ result = NoResult
  /\ retext = <<>>
  /\ cursor = 0
  /\ frames = <<>>

InitEscape ==
  \E content \in SeqsUpTo(EscAlphabet, MaxEsc), st \in BOOLEAN, l \in 1..2 :
    EscapeInit([fam |-> "escape", strict |-> st, line |-> l, content |-> content], content)

\* result := unescape_string(text, line_num)
Unescape ==
  /\ pc = "content"
  /\ result' = unescape_string(text, scenario.line, decOpts)
  /\ pc' = "unescaped"
  /\ UNCHANGED <<scenario, value, encOpts, decOpts, text, retext, cursor, frames>>

NextEscape == Unescape

SpecEscape == InitEscape /\ [][NextEscape]_vars

KnownEscapes == {BSLASH, QUOTE, "n", "r", "t"}

RECURSIVE FirstOddEscape(_)
\* reading the content in pairs from the left: "other" when the first backslash
\* that is not followed by \ " n r t is followed by another character, "last"
\* when it is the last character of the content, "none" when there is none
FirstOddEscape(rest) ==
  IF rest = <<>> THEN "none"
  ELSE IF Head(rest) # BSLASH THEN FirstOddEscape(Tail(rest))
  ELSE IF Len(rest) = 1 THEN "last"
  ELSE IF rest[2] \in KnownEscapes THEN FirstOddEscape(SubSeq(rest, 3, Len(rest)))
  ELSE "other"

RECURSIVE KeptLiterally(_)
\* the content with the known escapes replaced and every other backslash kept,
\* with the character after it
KeptLiterally(rest) ==
  IF rest = <<>> THEN <<>>
  ELSE IF Head(rest) # BSLASH THEN <<Head(rest)>> \o KeptLiterally(Tail(rest))
  ELSE IF Len(rest) = 1 THEN <<BSLASH>>
  ELSE (CASE rest[2] = BSLASH -> <<BSLASH>>
          [] rest[2] = QUOTE -> <<QUOTE>>
          [] rest[2] = "n" -> <<NL>>
          [] rest[2] = "r" -> <<CR>>
          [] rest[2] = "t" -> <<TAB>>
          [] OTHER -> <<BSLASH, rest[2]>>)
       \o KeptLiterally(SubSeq(rest, 3, Len(rest)))

\* C19: escape handling by mode -- when quoted content is unescaped, a backslash
\* followed by a character other than \ " n r t gives InvalidEscapeSequence in
\* strict mode and the backslash and that character in non-strict mode; a
\* backslash that is the last character of the content gives ParseError in strict
\* mode and a backslash in non-strict mode; content without a backslash is
\* returned unchanged in both modes
EscapesByMode ==
  pc = "unescaped" /\ scenario.fam = "escape" =>
    /\ ~Contains(scenario.content, BSLASH) => result = Ok(scenario.content, 0)
    /\ scenario.strict /\ FirstOddEscape(scenario.content) = "other" =>
         result.kind = "InvalidEscapeSequence" /\ result.line = scenario.line
    /\ scenario.strict /\ FirstOddEscape(scenario.content) = "last" =>
         result.kind = "ParseError"
    /\ ~scenario.strict => result = Ok(KeptLiterally(scenario.content), 0)

\* the content a\x is refused in strict mode, on its line
UnknownEscapeRefused ==
  /\ pc = "unescaped" /\ scenario.fam = "escape" /\ scenario.strict
  /\ scenario.line = 2
  /\ text = <<QUOTE, "a", BSLASH, "x", QUOTE>>
  /\ result = InvalidEscapeSequence(2, <<"x">>)

----------------------------------------------------------------------------
(* The cursor at the end *)

\* C20: terminal condition -- whenever decode returns a value, the cursor has
\* exhausted the logical lines, for root objects and for root arrays alike: no
\* logical line after the last row or list item of a root array is left unread
\* while decode reports success
CursorExhausted ==
  pc = "decoded" /\ scenario.fam = "rows" /\ IsOk(result) =>
    result.pos = Len(parse_lines(text, decOpts).val)

\* a root list array of one item followed by the line z: 1 decodes to the array
\* of the item in strict mode, the cursor before the last line
LineAfterRootArrayUnread ==
  /\ pc = "decoded" /\ scenario.fam = "rows" /\ scenario.strict
  /\ text = <<"[", "1", "]", ":", NL, " ", " ", "-", " ", "7", NL, "z", ":", " ", "1">>
  /\ IsOk(result) /\ result.val = VArr(<<VInt(7)>>)
  /\ result.pos = 2 /\ Len(parse_lines(text, decOpts).val) = 3

----------------------------------------------------------------------------
(* Blank lines: a document of up to MaxDoc lines, each one of the line shapes *)
(* of the format, and the same document with one blank line more, put before  *)
(* the physical line `at` (after the last line when at is one past it).       *)

\* the most lines of the document before the blank line is put in
MaxDoc == 3

\* an open field and a field below it, a tabular header and a row, a list header,
\* a primitive item and an object item, and a line without a colon
DocLines ==
  {<<"b", ":">>, <<" ", " ", "c", ":", " ", "1">>,
   <<"t", "[", "1", "]", "{", "a", "}", ":">>, <<" ", " ", "1">>,
   <<"l", "[", "1", "]", ":">>, <<" ", " ", "-", " ", "7">>,
   <<" ", " ", "-", " ", "a", ":", " ", "1">>, <<"x">>}

\* an empty line, and lines of whitespace: a space (not a multiple of the indent
\* width), a tab and a space
BlankTexts == {<<>>, <<" ">>, <<TAB, " ">>}

\* the lines with the line b put before position at
InsertAt(lines, at, b) ==
  SubSeq(lines, 1, at - 1) \o <<b>> \o SubSeq(lines, at, Len(lines))

InitBlank ==
  \E st \in BOOLEAN, lines \in SeqsUpTo(DocLines, MaxDoc), b \in BlankTexts :
    \E at \in 1..(Len(lines) + 1) :
      TextInit([fam |-> "blank", strict |-> st, indent |-> 2, lines |-> lines, at |-> at,
                blank |-> b],
               Join(InsertAt(lines, at, b), <<NL>>))

SpecBlank == InitBlank /\ [][NextText]_vars

\* the result r of a document, as it is reported when a line is put in before
\* the physical line at: the line numbers from at on are one more
LineShifted(r, at) ==
  IF r.line >= at THEN [r EXCEPT !.line = r.line + 1] ELSE r

\* C21: blank lines carry no meaning -- a document with an empty or
\* whitespace-only line put in anywhere decodes to what the document without it
\* decodes to: the same value, or the same error with the line numbers that follow
\* the blank line one more (the blank line is no row and no item, and it is
\* counted in the line numbers)
BlankLinesIgnored ==
  pc = "decoded" /\ scenario.fam = "blank" =>
    result = LineShifted(decode(Join(scenario.lines, <<NL>>), decOpts), scenario.at)

\* a line of one space between a tabular header and its row, in strict mode: the
\* row is counted as the one row declared, and the line without a colon after it
\* is reported on line 4
BlankLineBeforeRows ==
  /\ pc = "decoded" /\ scenario.fam = "blank" /\ scenario.strict
  /\ scenario.lines = << <<"t", "[", "1", "]", "{", "a", "}", ":">>,
                         <<" ", " ", "1">>, <<"x">> >>
  /\ scenario.at = 2 /\ scenario.blank = <<" ">>
  /\ result = InvalidLine(4, <<"x">>)

----------------------------------------------------------------------------
(* Indentation written: value trees over null and two strings, one of them    *)
(* starting with a form feed, encoded with an indent width of 1 to MaxWidth   *)
(* and decoded in strict mode with the same width.                            *)

\* the widest indent width of the encoder
MaxWidth == 3

IndentPrims == {VNull, VStr(<<"x">>), VStr(<<FF, "a">>)}

RECURSIVE IndentValues(_)
\* the value trees of nesting depth at most d over IndentPrims
IndentValues(d) ==
  IF d = 0 THEN IndentPrims
  ELSE LET E == IndentValues(d - 1) IN
       E \cup {VArr(a) : a \in SeqsUpTo(E, MaxLen)} \cup {VObj(o) : o \in ObjectsOver(E)}

InitIndented ==
  /\ pc = "value"
  /\ scenario = [fam |-> "indented"]
  /\ value \in IndentValues(MaxDepth)
  /\ encOpts \in [indent : 1..MaxWidth, delimiter : {"Comma"}]
  /\ decOpts = [indent |-> encOpts.indent, strict |-> TRUE]
  /\ text = <<>>
  /\ result = NoResult
  /\ retext = <<>>
  /\ cursor = 0
  /\ frames = <<>>

NextIndented == Encode \/ Decode

SpecIndented == InitIndented /\ [][NextIndented]_vars

RECURSIVE ObjectDepths(_, _)
RECURSIVE BelowDepths(_, _)
RECURSIVE ArrayBodyDepths(_, _)

\* the depths of the lines of the fields of an object whose fields are at depth d
ObjectDepths(o, d) ==
  Flatten([i \in 1..Len(o) |-> <<d>> \o BelowDepths(o[i].val, d)])

\* the depths of the lines below a key line of depth d that holds x
BelowDepths(x, d) ==
  CASE x.t = "obj" -> ObjectDepths(x.o, d + 1)
    [] x.t = "arr" -> ArrayBodyDepths(x.a, d)
    [] OTHER -> <<>>

\* the depths of the lines below the header of an array, the header at depth d:
\* rows and items one level deeper, the fields of an object item at the depth of
\* its hyphen line
ArrayBodyDepths(arr, d) ==
  IF detect_tabular(arr).some THEN [i \in 1..Len(arr) |-> d + 1]
  ELSE IF is_inline_primitive_array(arr) THEN <<>>
  ELSE Flatten([i \in 1..Len(arr) |->
         IF arr[i].t = "obj" /\ arr[i].o # <<>> THEN ObjectDepths(arr[i].o, d + 1)
         ELSE <<d + 1>>])

\* the nesting depth of the item on each line of the text of x
LineDepths(x) ==
  CASE x.t = "obj" -> ObjectDepths(x.o, 0)
    [] x.t = "arr" -> <<0>> \o ArrayBodyDepths(x.a, 0)
    [] OTHER -> <<0>>

RECURSIVE LeadingSpaces(_)
\* the number of space characters a line starts with
LeadingSpaces(l) ==
  IF l # <<>> /\ Head(l) = " " THEN 1 + LeadingSpaces(Tail(l)) ELSE 0

\* the non-empty lines of a text
NonEmptyLines(t) == SelectSeq(SplitNl(t, <<>>), LAMBDA l : l # <<>>)

\* every non-empty line starts with width x depth spaces, depth the nesting depth
\* of its item, and no line is more than one level below the line before it
IndentedByDepth(t, x, width) ==
  LET ls == NonEmptyLines(t)
      ds == LineDepths(x)
  IN /\ Len(ls) = Len(ds)
     /\ \A i \in 1..Len(ls) :
          /\ LeadingSpaces(ls[i]) = width * ds[i]
          /\ i > 1 => ds[i] <= ds[i - 1] + 1

\* C22: encoder indentation invariant -- for every value tree and indent width
\* each non-empty line of the output starts with exactly indent-width x depth
\* spaces, depth being the nesting depth of the item on that line and at most one
\* more than the depth of the line before; and strict decoding of the output
\* never fails with InvalidIndentation
EncoderIndentation ==
  /\ pc \in {"text", "decoded"} => IndentedByDepth(text, value, encOpts.indent)
  /\ pc = "decoded" => result.kind # "InvalidIndentation"

\* the root string of a form feed and a letter is written without quotes, and the
\* strict decoder with indent width 2 counts the form feed as one leading space
FormFeedCountedAsIndentation ==
  /\ pc = "decoded"
  /\ value = VStr(<<FF, "a">>) /\ encOpts.indent = 2
  /\ text = <<FF, "a">>
  /\ result = InvalidIndentation(1)

----------------------------------------------------------------------------
(* Arrays in arrays: a list array of at most MaxOuter elements, one of them   *)
(* at least an array, written under a key or at the root and decoded in       *)
(* strict mode.                                                               *)

\* the longest outer array
MaxOuter == 2

\* the inner arrays: empty, primitives of one type, primitives of two types, an
\* array, an object
InnerArrays ==
  {<<>>, <<VInt(1)>>, <<VInt(1), VInt(1)>>, <<VInt(1), VStr(<<"x">>)>>,
   <<VNull, VStr(<<"a", ",", "b">>)>>, <<VArr(<<VInt(1)>>)>>,
   <<VObj(<< [k |-> <<"a">>, val |-> VInt(1)] >>)>>}

OuterElems == {VArr(a) : a \in InnerArrays} \cup {VInt(1), VStr(<<"x">>)}

InitNested ==
  \E arr \in SeqsUpTo(OuterElems, MaxOuter), where \in {"key", "root"}, d \in Delimiters :
    /\ \E i \in 1..Len(arr) : arr[i].t = "arr"
    /\ ArrayInit([fam |-> "nested", where |-> where, arr |-> arr], arr, d)

NextNested == Encode \/ Decode

SpecNested == InitNested /\ [][NextNested]_vars

\* the text of the line of item i of the list array written at where: the line
\* after the header line and the items before, without its indentation
ItemLine(t, where, i) ==
  TrimStart(SplitNl(t, <<>>)[Len(LinesBefore(where)) + 1 + i])

\* "- [n]:" and, on the same line, the n values of inner: as many tokens between
\* the delimiters as inner has elements, none of them empty
InlineItem(line, inner, d) ==
  Bind(<<"-", " ">> \o ArrayHeader(Len(inner), d, <<>>), LAMBDA head :
    /\ StartsWith(line, head)
    /\ Bind(SubSeq(line, Len(head) + 1, Len(line)), LAMBDA rest :
         IF inner = <<>> THEN rest = <<>>
         ELSE Bind(split_by_delimiter(rest, d), LAMBDA tokens :
                /\ Len(tokens) = Len(inner)
                /\ \A j \in 1..Len(tokens) : tokens[j] # <<>>)))

\* C23: arrays nested in arrays -- an element of a list array that is itself an
\* array is written as "- [n]:" followed by its n values on the same line, none
\* of them an empty token, whatever the inner elements are (primitives of one
\* type or several, arrays, objects), and decoding the text restores the array
NestedArraysRestored ==
  /\ pc \in {"text", "decoded"} /\ scenario.fam = "nested" =>
       \A i \in 1..Len(scenario.arr) :
         scenario.arr[i].t = "arr" =>
           InlineItem(ItemLine(text, scenario.where, i), scenario.arr[i].a,
                      encOpts.delimiter)
  /\ pc = "decoded" /\ scenario.fam = "nested" => IsOk(result) /\ result.val = value

\* the array [[[1]]] under the key k: the item line ends after the colon and a
\* space, and the strict decoder returns [[""]] for it
InnerArrayWrittenEmpty ==
  /\ pc = "decoded" /\ scenario.fam = "nested" /\ scenario.where = "key"
  /\ scenario.arr = << VArr(<< VArr(<<VInt(1)>>) >>) >>
  /\ encOpts.delimiter = "Comma"
  /\ text = <<"k", "[", "1", "]", ":", NL, " ", " ", "-", " ", "[", "1", "]", ":", " ">>
  /\ result.kind = "Ok"
  /\ result.val = Around("key", VArr(<< VArr(<< VStr(<<>>) >>) >>))

----------------------------------------------------------------------------
(* Objects as list items: a list array of at most MaxItems elements, objects  *)
(* and the number 1, written under a key and decoded in strict mode.          *)

\* the longest list array of objects
MaxItems == 2

\* the values of the fields of an item: a primitive, an empty and a nested
\* object, an inline, a tabular and a list array
ItemFieldValues ==
  {VInt(1), VObj(<<>>), VObj(<< [k |-> <<"b">>, val |-> VInt(1)] >>),
   VArr(<<VInt(1), VInt(1)>>), VArr(<< VObj(<< [k |-> <<"b">>, val |-> VInt(1)] >>) >>),
   VArr(<<VInt(1), VStr(<<"x">>)>>)}

\* the items: the number 1 and the objects of at most two fields
ItemElems == {VInt(1)} \cup {VObj(o) : o \in ObjectsOver(ItemFieldValues)}

InitItems ==
  \E arr \in SeqsUpTo(ItemElems, MaxItems), where \in {"key", "nested"}, d \in {"Comma", "Pipe"} :
    /\ \E i \in 1..Len(arr) : arr[i].t = "obj"
    /\ ~detect_tabular(arr).some
    /\ ArrayInit([fam |-> "items", where |-> where, arr |-> arr], arr, d)

NextItems == Encode \/ Decode

SpecItems == InitItems /\ [][NextItems]_vars

\* the number of non-empty lines item x of a list takes, the hyphen line at depth e
ItemLineCount(x, e) ==
  IF x.t = "obj" /\ x.o # <<>> THEN Len(ObjectDepths(x.o, e)) ELSE 1

RECURSIVE LinesOfItems(_, _, _)
\* the number of non-empty lines the first n items of arr take
LinesOfItems(arr, n, e) ==
  IF n = 0 THEN 0 ELSE LinesOfItems(arr, n - 1, e) + ItemLineCount(arr[n], e)

RECURSIVE LinesOfFields(_, _, _)
\* the number of non-empty lines the first n fields of o take, the keys at depth e
LinesOfFields(o, n, e) ==
  IF n = 0 THEN 0
  ELSE LinesOfFields(o, n - 1, e) + 1 + Len(BelowDepths(o[n].val, e))

\* the first field of every object item is on its hyphen line and each later
\* field on a line of its own that starts at the depth of the hyphen line
FieldsBesideHyphen(t, where, width, arr) ==
  LET ls == NonEmptyLines(t)
      e == HeaderDepth(where) + 1
      first == Len(LinesBefore(where)) + 1
  IN \A i \in 1..Len(arr) :
       arr[i].t = "obj" =>
         \A j \in 1..Len(arr[i].o) :
           LET n == first + LinesOfItems(arr, i - 1, e) + LinesOfFields(arr[i].o, j - 1, e) + 1
           IN /\ n <= Len(ls)
              /\ StartsWith(ls[n], Spaces(width * e)
                                   \o (IF j = 1 THEN <<"-", " ">> ELSE <<>>)
                                   \o encode_key(arr[i].o[j].k) \o <<":">>)

\* C24: objects as list items -- the first field of an object in a list array is
\* written on the hyphen line and every later field on its own line at the depth
\* of the hyphen line, and decoding the text gives back the array, for fields
\* that are primitives, nested objects or arrays (inline, tabular, list) and for
\* an element that is the empty object
ListItemObjects ==
  /\ pc \in {"text", "decoded"} /\ scenario.fam = "items" =>
       FieldsBesideHyphen(text, scenario.where, encOpts.indent, scenario.arr)
  /\ pc = "decoded" /\ scenario.fam = "items" => IsOk(result) /\ result.val = value

\* the array [{}, 1] under the key k: the line of the empty object is "- ", which
\* the decoder trims to "-" and does not take for an item
EmptyObjectItemLost ==
  /\ pc = "decoded" /\ scenario.fam = "items" /\ scenario.where = "key"
  /\ scenario.arr = <<VObj(<<>>), VInt(1)>>
  /\ text = <<"k", "[", "2", "]", ":", NL, " ", " ", "-", " ", NL, " ", " ", "-", " ", "1">>
  /\ result = ArrayLengthMismatch(2, 0)

----------------------------------------------------------------------------
(* Field lists: a header that declares one element and carries a field list,  *)
(* closed or not, over a body of one row or one list item                     *)

\* the field lists: closed ones, and ones without the closing brace
FieldListTexts ==
  {<<"{", "a", "}">>, <<"{", "}">>, <<"{", "a">>, <<"{">>, <<"{", "a", ",", "b">>,
   <<"{", QUOTE, "a", QUOTE>>}

BodyForms == {"row", "item", "none"}

FieldListText(sc) ==
  ArrayText(sc.where, sc.indent,
            HeaderText(<<"1">>, header_symbol(sc.delim), TRUE, sc.fl),
            <<>>,
            CASE sc.body = "row" -> << <<"1">> >>
              [] sc.body = "item" -> << <<"-", " ", "1">> >>
              [] OTHER -> <<>>,
            <<>>)

\* the field list opens with a brace that is not closed
Unclosed(fl) == fl # <<>> /\ Head(fl) = "{" /\ ~Contains(fl, "}")

InitFields ==
  \E w \in Places, st \in BOOLEAN, d \in Delimiters, fl \in FieldListTexts, body \in BodyForms :
    LET sc == [fam |-> "fields", where |-> w, strict |-> st, indent |-> 2, delim |-> d,
               fl |-> fl, body |-> body]
    IN TextInit(sc, FieldListText(sc))

SpecFields == InitFields /\ [][NextText]_vars

\* C25: malformed field list -- in both modes an array header that opens a field
\* list with { and does not close it with } makes decode fail with
\* InvalidArrayHeader; it is not decoded as a header without fields
UnclosedFieldListRejected ==
  pc = "decoded" /\ scenario.fam = "fields" /\ Unclosed(scenario.fl) =>
    result.kind = "InvalidArrayHeader"

\* the header k[1]{a: over the item "- 1", in strict mode: decoded as the list
\* array [1], the field list dropped
UnclosedFieldListRead ==
  /\ pc = "decoded" /\ scenario.fam = "fields" /\ scenario.strict
  /\ scenario.where = "key" /\ scenario.delim = "Comma"
  /\ scenario.fl = <<"{", "a">> /\ scenario.body = "item"
  /\ text = <<"k", "[", "1", "]", "{", "a", ":", NL, " ", " ", "-", " ", "1">>
  /\ IsOk(result)
  /\ result.val = Around("key", VArr(<<VInt(1)>>))

----------------------------------------------------------------------------
(* Keys: the object of one field whose key is any text of at most MaxKey      *)
(* characters and whose value is a primitive, an object or an array, encoded  *)
(* and decoded in strict mode.                                                *)

\* the longest key
MaxKey == 2

\* a letter, a space, the brackets, the quote, the backslash, the colon and a
\* character of more than one byte
KeyAlphabet == {"a", " ", "[", "]", QUOTE, BSLASH, ":", MB}

\* a primitive, an empty and a nested object, an inline, a tabular and a list array
KeyedValues ==
  {VInt(1), VObj(<<>>), VObj(<< [k |-> <<"b">>, val |-> VInt(1)] >>),
   VArr(<<VInt(1), VInt(1)>>), VArr(<< VObj(<< [k |-> <<"b">>, val |-> VInt(1)] >>) >>),
   VArr(<<VInt(1), VStr(<<"x">>)>>)}

InitKeys ==
  \E key \in SeqsUpTo(KeyAlphabet, MaxKey), x \in KeyedValues, d \in {"Comma", "Pipe"} :
    /\ pc = "value"
    /\ scenario = [fam |-> "keys", key |-> key]
    /\ value = VObj(<< [k |-> key, val |-> x] >>)
    /\ encOpts = [indent |-> 2, delimiter |-> d]
    /\ decOpts = [indent |-> 2, strict |-> TRUE]
    /\ text = <<>>
    /\ result = NoResult
    /\ retext = <<>>
    /\ cursor = 0
    /\ frames = <<>>

NextKeys == Encode \/ Decode

SpecKeys == InitKeys /\ [][NextKeys]_vars

\* C26: keys survive encoding and decoding -- for every key k and every field
\* value (primitive, object or array), decoding the text of the object {k: value}
\* gives an object whose only key is exactly k: a quoted key is unquoted and
\* unescaped also before an array header, and a [ inside a quoted key does not
\* start an array header
KeysSurvive ==
  pc = "decoded" /\ scenario.fam = "keys" =>
    /\ IsOk(result)
    /\ result.val.t = "obj"
    /\ Len(result.val.o) = 1
    /\ result.val.o[1].k = scenario.key

\* the key "a b" before an inline array: decode returns the key with its quotes
QuotedKeyKeptBeforeHeader ==
  /\ pc = "decoded" /\ scenario.fam = "keys"
  /\ scenario.key = <<"a", " ">> /\ encOpts.delimiter = "Comma"
  /\ value.o[1].val = VArr(<<VInt(1), VInt(1)>>)
  /\ text = <<QUOTE, "a", " ", QUOTE, "[", "2", "]", ":", " ", "1", ",", "1">>
  /\ IsOk(result)
  /\ result.val = VObj(<< [k |-> <<QUOTE, "a", " ", QUOTE>>, val |-> VArr(<<VInt(1), VInt(1)>>)] >>)

----------------------------------------------------------------------------
(* The lines of the output                                                    *)

\* the text is empty, or none of its lines is empty or only whitespace (so it
\* does not end with a newline either)
NoBlankLine(t) ==
  t = <<>> \/ \A i \in 1..Len(SplitNl(t, <<>>)) : Trim(SplitNl(t, <<>>)[i]) # <<>>

\* C27: canonical output has no blank lines -- for every value tree the output
\* of the encoder holds no empty or whitespace-only line and does not end with a
\* newline, also for a tabular row of an array of empty objects
CanonicalLines ==
  pc \in {"text", "decoded", "reencoded"} /\ scenario.fam = "value" => NoBlankLine(text)

\* the array of one empty object is written as a header with an empty field list
\* and a row that is nothing but its indentation
EmptyObjectRowBlank ==
  /\ pc = "text" /\ scenario.fam = "value"
  /\ value = VArr(<< VObj(<<>>) >>) /\ encOpts.delimiter = "Comma"
  /\ text = <<"[", "1", "]", "{", "}", ":", NL, " ", " ">>

----------------------------------------------------------------------------
(* Lines out of place: documents of at most MaxOut lines, each an open key, a *)
(* field, a list header or a list item, indented by 0 to MaxLevel levels      *)

\* the most lines of such a document
MaxOut == 3

\* the deepest level a line is indented to
MaxLevel == 2

PlacedLines == [lead : 0..MaxLevel, kind : {"open", "field", "list", "item"}]

PlacedText(doc) ==
  Join([i \in 1..Len(doc) |->
          Spaces(2 * doc[i].lead)
          \o (CASE doc[i].kind = "open" -> <<"a", ":">>
                [] doc[i].kind = "field" -> <<"b", ":", " ", "1">>
                [] doc[i].kind = "list" -> <<"l", "[", "1", "]", ":">>
                [] OTHER -> <<"-", " ", "7">>)],
       <<NL>>)

InitPlaced ==
  \E st \in BOOLEAN, doc \in SeqsUpTo(PlacedLines, MaxOut) :
    TextInit([fam |-> "placed", strict |-> st, indent |-> 2, doc |-> doc], PlacedText(doc))

SpecPlaced == InitPlaced /\ [][NextText]_vars

\* a line two or more levels deeper than the key that opens an object above it
DeepBelowKey(doc) ==
  \E i \in 2..Len(doc) : doc[i - 1].kind = "open" /\ doc[i].lead >= doc[i - 1].lead + 2

\* a line that is no item, at the depth of the items of a list array, after them
StrayAfterItems(doc) ==
  \E h \in 1..Len(doc) : \E i \in (h + 2)..Len(doc) :
    /\ doc[h].kind = "list"
    /\ \A m \in (h + 1)..(i - 1) : doc[m].kind = "item" /\ doc[m].lead = doc[h].lead + 1
    /\ doc[i].kind # "item" /\ doc[i].lead = doc[h].lead + 1

\* C28: the skip branch of object decoding is a no-op -- in strict mode decode
\* does not report success for a document that holds a line which no nested
\* decoding reads: a line two or more levels deeper than its parent key, or a
\* non-hyphen line that follows the items of a list array at their depth
SkippedLinesRefused ==
  pc = "decoded" /\ scenario.fam = "placed" /\ scenario.strict
  /\ (DeepBelowKey(scenario.doc) \/ StrayAfterItems(scenario.doc))
    => ~IsOk(result)

\* the field b two levels below the key a, in strict mode: decode returns the
\* object whose a is empty, and the line of b is not in it
DeepLineDropped ==
  /\ pc = "decoded" /\ scenario.fam = "placed" /\ scenario.strict
  /\ scenario.doc = << [lead |-> 0, kind |-> "open"], [lead |-> 2, kind |-> "field"] >>
  /\ text = <<"a", ":", NL, " ", " ", " ", " ", "b", ":", " ", "1">>
  /\ IsOk(result)
  /\ result.val = VObj(<< [k |-> <<"a">>, val |-> EmptyObj] >>)

----------------------------------------------------------------------------
(* Declared lengths: the arrays of the array family, written and then decoded *)
(* in strict mode                                                             *)

NextLengths == Encode \/ Decode

SpecLengths == InitArray /\ [][NextLengths]_vars

\* C29: declared lengths match what the decoder counts -- for every array the
\* encoder writes, the strict decoder counts as many inline tokens, rows or
\* hyphen items as the header declares and one cell per declared field in each
\* row: decoding the output never fails with ArrayLengthMismatch or
\* RowWidthMismatch, also for arrays of empty objects and for list items that are
\* empty objects
DeclaredLengthsCounted ==
  pc = "decoded" /\ scenario.fam = "array" =>
    result.kind \notin {"ArrayLengthMismatch", "RowWidthMismatch"}

\* the array of one empty object under the key k: the header declares one row
\* with an empty field list, the row is a line of spaces, and the strict decoder
\* counts no row
EmptyObjectRowNotCounted ==
  /\ pc = "decoded" /\ scenario.fam = "array" /\ scenario.where = "key"
  /\ scenario.arr = << VObj(<<>>) >> /\ encOpts.delimiter = "Comma"
  /\ text = <<"k", "[", "1", "]", "{", "}", ":", NL, " ", " ">>
  /\ result = ArrayLengthMismatch(1, 0)

----------------------------------------------------------------------------
(* The cursor: Decoder::decode run one loop iteration at a time.  cursor is   *)
(* Decoder.pos, frames is the stack of the loops that are running (the last   *)
(* one is the innermost); the values the loops build are left out, the count  *)
(* of the elements of an array is kept for the strict checks                  *)

\* the frame of decode_object (depth is start_depth) or of the field loop of
\* decode_list_item_object (depth is item_depth)
Frame(loop, depth) ==
  [loop |-> loop, depth |-> depth, count |-> 0, expected |-> 0, delimiter |-> "Comma",
   fields |-> <<>>]

\* the frame of decode_tabular_array when the header h has fields, else of
\* decode_list_array; count is arr.len()
ArrayFrame(h, depth) ==
  [loop |-> IF h.fields # <<>> THEN "tabular" ELSE "list", depth |-> depth, count |-> 0,
   expected |-> h.length, delimiter |-> h.delimiter, fields |-> h.fields]

\* what an iteration leaves: the cursor and the loops still running, or the Err
\* (or the abort) that ends the call
Running(pos, stack) == [err |-> Ok(NoValue, 0), cursor |-> pos, frames |-> stack]
Failed(e, pos) == [err |-> e, cursor |-> pos, frames |-> <<>>]

\* arr.push(..) in the innermost loop
Counted(stack) == [stack EXCEPT ![Len(stack)].count = @ + 1]

\* the innermost loop is left and its function returns: the object a list item
\* returns is pushed onto the array of the list loop that called it
Return(stack) ==
  IF stack[Len(stack)].loop = "item" THEN Counted(SubSeq(stack, 1, Len(stack) - 1))
  ELSE SubSeq(stack, 1, Len(stack) - 1)

\* try_parse_array_header for a header_part that starts with "[": the inline
\* values are read at once, a tabular or list body starts its loop
ArrayEntry(opts, pos, stack, header_part, parent_depth, line_num) ==
  Bind(parse_array_header(header_part, line_num, opts), LAMBDA h :
    IF ~IsOk(h) THEN Failed(h, pos)
    ELSE Bind(Find(header_part, ":"), LAMBDA colon_pos :
         Bind(IF colon_pos = -1 THEN <<>>
              ELSE Trim(Slice(header_part, colon_pos + 1, Len(header_part))),
              LAMBDA after_colon :
           IF after_colon # <<>>
           THEN Bind(decode_inline_array(after_colon, h.val.delimiter, h.val.length,
                                         line_num, opts),
                     LAMBDA a : IF IsOk(a) THEN Running(pos, stack) ELSE Failed(a, pos))
           ELSE Running(pos, Append(stack, ArrayFrame(h.val, parent_depth + 1))))))

\* the value of a field of a list-item object whose text after the colon is v
\* (both field branches of decode_list_item_object)
FieldEntry(lines, opts, pos, stack, v, item_depth, line_num) ==
  IF v = <<>>
  THEN IF pos < Len(lines) /\ lines[pos + 1].depth > item_depth
       THEN Running(pos, Append(stack, Frame("object", item_depth + 1)))
       ELSE Running(pos, stack)
  ELSE IF StartsWith(v, <<"[">>)
  THEN ArrayEntry(opts, pos, stack, v, item_depth, line_num)
  ELSE Bind(parse_primitive(v, line_num, opts),
            LAMBDA p : IF IsOk(p) THEN Running(pos, stack) ELSE Failed(p, pos))

\* a variant of ObjectIteration whose skip branch leaves the cursor where it is
ObjectIterationStalling(lines, opts, pos, stack) ==
  Bind(stack[Len(stack)].depth, LAMBDA start_depth :
    IF pos >= Len(lines) THEN Running(pos, Return(stack))
    ELSE IF lines[pos + 1].depth < start_depth THEN Running(pos, Return(stack))
    ELSE IF lines[pos + 1].depth > start_depth THEN Running(pos, stack)
    ELSE Bind(parse_key_value(lines[pos + 1].content, lines[pos + 1].line_num, opts),
              LAMBDA kv :
           IF ~IsOk(kv) THEN Failed(kv, pos)
           ELSE IF ~kv.val.some
           THEN Failed(InvalidLine(lines[pos + 1].line_num, lines[pos + 1].content), pos)
           ELSE Bind(Find(kv.val.key, "["), LAMBDA bracket_pos :
                  IF bracket_pos # -1
                  THEN ArrayEntry(opts, pos + 1, stack,
                         IF kv.val.value = <<>> THEN Slice(kv.val.key, bracket_pos, Len(kv.val.key))
                         ELSE Slice(kv.val.key, bracket_pos, Len(kv.val.key)) \o <<":">>
                              \o kv.val.value,
                         start_depth, lines[pos + 1].line_num)
                  ELSE IF kv.val.value = <<>>
                  THEN IF pos + 1 < Len(lines) /\ lines[pos + 2].depth > start_depth
                       THEN Running(pos + 1, Append(stack, Frame("object", start_depth + 1)))
                       ELSE Running(pos + 1, stack)
                  ELSE Bind(parse_primitive(kv.val.value, lines[pos + 1].line_num, opts),
                            LAMBDA prim : IF IsOk(prim) THEN Running(pos + 1, stack)
                                          ELSE Failed(prim, pos + 1)))))

\* one iteration of the while loop of decode_object (end_line is None at every
\* call): the loop is left, a deeper line is skipped, or the entry on the line
\* is read; the header that follows a "[" in the key starts with "[", so
\* try_parse_array_header never returns None here
ObjectIteration(lines, opts, pos, stack) ==
  Bind(stack[Len(stack)].depth, LAMBDA start_depth :
    IF pos >= Len(lines) THEN Running(pos, Return(stack))
    ELSE IF lines[pos + 1].depth < start_depth THEN Running(pos, Return(stack))
    ELSE IF lines[pos + 1].depth > start_depth THEN Running(pos + 1, stack)
    ELSE Bind(parse_key_value(lines[pos + 1].content, lines[pos + 1].line_num, opts),
              LAMBDA kv :
           IF ~IsOk(kv) THEN Failed(kv, pos)
           ELSE IF ~kv.val.some
           THEN Failed(InvalidLine(lines[pos + 1].line_num, lines[pos + 1].content), pos)
           ELSE Bind(Find(kv.val.key, "["), LAMBDA bracket_pos :
                  IF bracket_pos # -1
                  THEN ArrayEntry(opts, pos + 1, stack,
                         IF kv.val.value = <<>> THEN Slice(kv.val.key, bracket_pos, Len(kv.val.key))
                         ELSE Slice(kv.val.key, bracket_pos, Len(kv.val.key)) \o <<":">>
                              \o kv.val.value,
                         start_depth, lines[pos + 1].line_num)
                  ELSE IF kv.val.value = <<>>
                  THEN IF pos + 1 < Len(lines) /\ lines[pos + 2].depth > start_depth
                       THEN Running(pos + 1, Append(stack, Frame("object", start_depth + 1)))
                       ELSE Running(pos + 1, stack)
                  ELSE Bind(parse_primitive(kv.val.value, lines[pos + 1].line_num, opts),
                            LAMBDA prim : IF IsOk(prim) THEN Running(pos + 1, stack)
                                          ELSE Failed(prim, pos + 1)))))

\* one iteration of the while loop of decode_tabular_array, or the row count
\* check when its condition fails
TabularIteration(lines, opts, pos, stack) ==
  Bind(stack[Len(stack)], LAMBDA top :
    IF pos < Len(lines) /\ lines[pos + 1].depth = top.depth
    THEN Bind(split_by_delimiter(lines[pos + 1].content, top.delimiter), LAMBDA values :
           IF opts.strict /\ Len(values) # Len(top.fields)
           THEN Failed(RowWidthMismatch(lines[pos + 1].line_num, Len(top.fields), Len(values)),
                       pos)
           ELSE Bind(row_object(top.fields, values, 1, <<>>, lines[pos + 1].line_num, opts),
                     LAMBDA obj : IF ~IsOk(obj) THEN Failed(obj, pos)
                                  ELSE Running(pos + 1, Counted(stack))))
    ELSE IF opts.strict /\ top.count # top.expected
         THEN Failed(ArrayLengthMismatch(top.expected, top.count), pos)
    ELSE Running(pos, Return(stack)))

\* the item whose text after "- " is item_content, after self.pos += 1: an
\* inline array and a primitive are pushed at once, an object starts the loop
\* of decode_list_item_object after its first field
ListItemEntry(lines, opts, pos, stack, item_depth, item_content, line_num) ==
  IF StartsWith(item_content, <<"[">>)
  THEN Bind(parse_array_header(item_content, line_num, opts), LAMBDA h :
         IF ~IsOk(h) THEN Failed(h, pos)
         ELSE Bind(Find(item_content, ":"), LAMBDA colon_pos :
                IF colon_pos # -1
                THEN Bind(decode_inline_array(
                            Trim(Slice(item_content, colon_pos + 1, Len(item_content))),
                            h.val.delimiter, h.val.length, line_num, opts),
                          LAMBDA a : IF IsOk(a) THEN Running(pos, Counted(stack))
                                     ELSE Failed(a, pos))
                ELSE Running(pos, Counted(stack))))
  ELSE Bind(parse_key_value(item_content, line_num, opts), LAMBDA kv :
         IF ~IsOk(kv) THEN Failed(kv, pos)
         ELSE IF kv.val.some
         THEN FieldEntry(lines, opts, pos, Append(stack, Frame("item", item_depth)),
                         kv.val.value, item_depth, line_num)
         ELSE Bind(parse_primitive(item_content, line_num, opts),
                   LAMBDA p : IF IsOk(p) THEN Running(pos, Counted(stack))
                              ELSE Failed(p, pos)))

\* one iteration of the while loop of decode_list_array, or the item count
\* check when its condition fails or a line without "- " breaks it
ListIteration(lines, opts, pos, stack) ==
  Bind(stack[Len(stack)], LAMBDA top :
    IF pos < Len(lines) /\ lines[pos + 1].depth = top.depth
       /\ StartsWith(lines[pos + 1].content, <<"-", " ">>)
    THEN ListItemEntry(lines, opts, pos + 1, stack, top.depth,
                       Slice(lines[pos + 1].content, 2, Len(lines[pos + 1].content)),
                       lines[pos + 1].line_num)
    ELSE IF opts.strict /\ top.count # top.expected
         THEN Failed(ArrayLengthMismatch(top.expected, top.count), pos)
    ELSE Running(pos, Return(stack)))

\* one iteration of the while loop of decode_list_item_object: a further field
\* at item_depth is read, or the loop is left
ItemIteration(lines, opts, pos, stack) ==
  Bind(stack[Len(stack)].depth, LAMBDA item_depth :
    IF pos < Len(lines) /\ lines[pos + 1].depth = item_depth
       /\ ~StartsWith(lines[pos + 1].content, <<"-", " ">>)
    THEN Bind(parse_key_value(lines[pos + 1].content, lines[pos + 1].line_num, opts),
              LAMBDA kv :
           IF ~IsOk(kv) THEN Failed(kv, pos)
           ELSE IF ~kv.val.some THEN Running(pos, Return(stack))
           ELSE FieldEntry(lines, opts, pos + 1, stack, kv.val.value, item_depth,
                           lines[pos + 1].line_num))
    ELSE Running(pos, Return(stack)))

\* Decoder::new and Decoder::decode up to the first loop: the root form is
\* chosen, decode_array reads the header of a root array and sets the cursor to 1
DecodeEntry(input, opts) ==
  Bind(parse_lines(input, opts), LAMBDA ls :
    IF ~IsOk(ls) THEN Failed(ls, 0)
    ELSE IF ls.val = <<>> THEN Running(0, <<>>)
    ELSE IF is_root_array(ls.val)
    THEN Bind(parse_array_header(ls.val[1].content, ls.val[1].line_num, opts), LAMBDA h :
           IF ~IsOk(h) THEN Failed(h, 0) ELSE Running(1, <<ArrayFrame(h.val, 1)>>))
    ELSE IF Len(ls.val) = 1 /\ ~is_key_value(ls.val[1].content)
    THEN Bind(parse_primitive(ls.val[1].content, ls.val[1].line_num, opts),
              LAMBDA p : IF IsOk(p) THEN Running(0, <<>>) ELSE Failed(p, 0))
    ELSE Running(0, <<Frame("object", 0)>>))

\* Decoder.lines
LogicalLines == Bind(parse_lines(text, decOpts), LAMBDA ls : IF IsOk(ls) THEN ls.val ELSE <<>>)

\* the call goes on with what the iteration left, or ends: with the Err, or
\* with Ok when the outermost loop has returned
Land(o) ==
  /\ cursor' = o.cursor
  /\ frames' = o.frames
  /\ pc' = IF IsOk(o.err) /\ o.frames # <<>> THEN "running" ELSE "stepped"
  /\ result' = IF ~IsOk(o.err) THEN o.err
               ELSE IF o.frames = <<>> THEN Ok(NoValue, o.cursor)
               ELSE result
  /\ UNCHANGED <<scenario, value, encOpts, decOpts, text, retext>>

StartDecode ==
  /\ pc = "text"
  /\ scenario.fam = "steps"
  /\ Land(DecodeEntry(text, decOpts))

StepObject ==
  /\ pc = "running"
  /\ frames[Len(frames)].loop = "object"
  /\ Land(ObjectIteration(LogicalLines, decOpts, cursor, frames))

StepTabular ==
  /\ pc = "running"
  /\ frames[Len(frames)].loop = "tabular"
  /\ Land(TabularIteration(LogicalLines, decOpts, cursor, frames))

StepList ==
  /\ pc = "running"
  /\ frames[Len(frames)].loop = "list"
  /\ Land(ListIteration(LogicalLines, decOpts, cursor, frames))

StepItem ==
  /\ pc = "running"
  /\ frames[Len(frames)].loop = "item"
  /\ Land(ItemIteration(LogicalLines, decOpts, cursor, frames))

MaxStep == 3

\* the lines of a document: entries, headers, rows and items at the depths 0,
\* 1 and 2, a root array header, and a lone quote as the line without a colon
StepLines ==
  (DocLines \ {<<"x">>}) \cup
  {<<" ", " ", " ", " ", "c", ":", " ", "1">>, <<"[", "1", "]", ":">>,
   <<" ", " ", "-", " ", "a", ":">>, <<QUOTE>>}

InitSteps ==
  \E strict \in BOOLEAN, n \in 0..MaxStep :
    \E doc \in [1..n -> StepLines] :
      TextInit([fam |-> "steps", strict |-> strict, indent |-> 2, doc |-> doc],
               Join(doc, <<NL>>))

NextSteps == StartDecode \/ StepObject \/ StepTabular \/ StepList \/ StepItem

SpecSteps == InitSteps /\ [][NextSteps]_vars

\* the call run by iterations ends as decode does: with the same Err, or with Ok
\* and the cursor where decode leaves it
StepsAgree ==
  pc = "stepped" =>
    result = Bind(decode(text, decOpts),
                  LAMBDA d : IF IsOk(d) THEN Ok(NoValue, d.pos) ELSE d)

\* what the next iteration of the innermost loop leaves
Iteration ==
  CASE frames[Len(frames)].loop = "object" ->
         ObjectIteration(LogicalLines, decOpts, cursor, frames)
    [] frames[Len(frames)].loop = "tabular" ->
         TabularIteration(LogicalLines, decOpts, cursor, frames)
    [] frames[Len(frames)].loop = "list" ->
         ListIteration(LogicalLines, decOpts, cursor, frames)
    [] frames[Len(frames)].loop = "item" ->
         ItemIteration(LogicalLines, decOpts, cursor, frames)

\* a bound on the iterations still to run: an iteration that advances the
\* cursor starts at most two loops, every other one leaves a loop
Remaining(pos, stack) == 3 * (Len(LogicalLines) - pos) + Len(stack)

\* C30: decoder progress and termination -- during a decode call the cursor
\* never decreases and never exceeds the number of logical lines, and every
\* iteration of the object, tabular, list and list-item-object loops advances
\* the cursor by at least one line, leaves its loop or returns an error; the
\* iterations still to run get fewer with each one, so the call ends
DecoderProgress ==
  /\ cursor >= 0 /\ cursor <= Len(LogicalLines)
  /\ pc = "running" =>
       Bind(Iteration, LAMBDA o :
         /\ o.cursor >= cursor
         /\ o.cursor <= Len(LogicalLines)
         /\ \/ o.cursor > cursor
            \/ Len(o.frames) < Len(frames)
            \/ ~IsOk(o.err)
         /\ IsOk(o.err) => Remaining(o.cursor, o.frames) < Remaining(cursor, frames))

\* the entry c: 1 two levels below a: the object loop of b has skipped the line
\* and the cursor stands at the end of the three lines
DeepLineSkipped ==
  /\ pc = "running" /\ scenario.fam = "steps"
  /\ text = <<"b", ":", NL, " ", " ", "c", ":", " ", "1", NL,
              " ", " ", " ", " ", "c", ":", " ", "1">>
  /\ frames = <<Frame("object", 0), Frame("object", 1)>>
  /\ cursor = 3

====
